---- MODULE Spec2Model ----
(***************************************************************************)
(* Verification model of the movie guessing engine                         *)
(* (backend/engines/engine_akinator.py) and of its HTTP front end          *)
(* (backend/app_akinator.py).                                              *)
(*                                                                         *)
(* Conventions.                                                            *)
(*  - A Python dict is a function; a key whose value is None is a key      *)
(*    that is absent from its DOMAIN, so d.get(k) is None iff              *)
(*    k \notin DOMAIN d.                                                   *)
(*  - A predicate result True / False / None is TrueV / FalseV / NoneV.    *)
(*  - Titles are sequences of one-character strings.                       *)
(*  - A question key is a record [prefix, rest]: prefix is the part that   *)
(*    the code tests with startswith, rest is what follows it.             *)
(*  - Scores are kept in twentieths (5.0 is 100, 0.2 is 4), so that every  *)
(*    score delta of update_state_with_answer is an integer.               *)
(***************************************************************************)
EXTENDS Integers, Sequences, FiniteSets, TLC

VARIABLES
    state,        \* the live EngineState (CLI: main's state; HTTP: game_state[gid]["state"])
    history,      \* main's undo stack: a sequence of EngineState snapshots
    pc,           \* CLI: the input main will read next, or how it ended; HTTP: the
                  \* handler that ran last
    cur_q,        \* CLI: the question on offer (q, or tq in the burst)
    targeted,     \* CLI: the targeted questions still to be put in the running burst
    guess_mid,    \* HTTP: session["proposed_film_id"], << >> when unset
    out,          \* what was reported last: the event of the console, or the kind of
                  \* the HTTP response
    cfg,          \* the command line: guess_cooldown and max_consecutive_guesses
    answered,     \* the (question, answer) pairs recorded and not undone, oldest first
    since_reject, \* questions answered since the last rejected guess, counted up to the
                  \* configured cooldown (-1: no guess rejected yet)
    sessions,     \* HTTP: the keys of game_state
    current_qkey, \* HTTP: session["current_qkey"]
    p_in,         \* the question and the item of the last call of q.predicate(m)
    p_out,        \* the result of that call
    DETAILS_CACHE, \* the module's cache of get_details: identifier -> enriched record.
                  \* The sessions read records through get_details(mid), whose result
                  \* is the same with and without the cache, and leave it as it is.
    lookups       \* per identifier, how often get_details read the movies table for it

vars == << state, history, pc, cur_q, targeted, guess_mid, out, cfg, answered,
           since_reject, sessions, current_qkey, p_in, p_out, DETAILS_CACHE, lookups >>

-----------------------------------------------------------------------------
(* Values and dict helpers *)

NoneV == "None"
TrueV == "True"
FalseV == "False"

Has(d, k) == k \in DOMAIN d

Get(d, k, default) == IF k \in DOMAIN d THEN d[k] ELSE default

EmptyDict == [k \in {} |-> NoneV]

Last(s) == s[Len(s)]

Front(s) == SubSeq(s, 1, Len(s) - 1)

Range(s) == { s[i] : i \in 1..Len(s) }


Min(a, b) == IF a <= b THEN a ELSE b

Take(s, n) == SubSeq(s, 1, Min(n, Len(s)))

\* The elements of s in the order of their ranks (rank[i] is the number of
\* elements that come before s[i]).
ByRank(s, rank) == << >> \o [r \in 1..Len(s) |-> s[CHOOSE i \in 1..Len(s) : rank[i] = r - 1]]

-----------------------------------------------------------------------------
(* Characters and titles *)

LOWER == << "a","b","c","d","e","f","g","h","i","j","k","l","m",
            "n","o","p","q","r","s","t","u","v","w","x","y","z" >>

UPPER == << "A","B","C","D","E","F","G","H","I","J","K","L","M",
            "N","O","P","Q","R","S","T","U","V","W","X","Y","Z" >>

DIGITS == { "0","1","2","3","4","5","6","7","8","9" }

UpperChar(c) ==
    IF \E i \in 1..26 : LOWER[i] = c
    THEN UPPER[CHOOSE i \in 1..26 : LOWER[i] = c]
    ELSE c

LowerChar(c) ==
    IF \E i \in 1..26 : UPPER[i] = c
    THEN LOWER[CHOOSE i \in 1..26 : UPPER[i] = c]
    ELSE c

StrUpper(s) == [i \in 1..Len(s) |-> UpperChar(s[i])]

StrLower(s) == [i \in 1..Len(s) |-> LowerChar(s[i])]

IsAlnum(c) == c \in Range(LOWER) \cup Range(UPPER) \cup DIGITS

IsSpace(c) == c = " "

\* str.strip(): leading and trailing whitespace removed.
RECURSIVE LStrip(_)
LStrip(s) == IF s # << >> /\ IsSpace(Head(s)) THEN LStrip(Tail(s)) ELSE s

RECURSIVE RStrip(_)
RStrip(s) == IF s # << >> /\ IsSpace(Last(s)) THEN RStrip(Front(s)) ELSE s

Strip(s) == RStrip(LStrip(s))


\* `sub in s` on strings.
Contains(s, sub) ==
    \E i \in 1..(Len(s) + 1) :
        i + Len(sub) - 1 <= Len(s) /\ SubSeq(s, i, i + Len(sub) - 1) = sub

ARTICLES == { <<"t","h","e">>, <<"a">>, <<"a","n">>, <<"l","e">>, <<"l","a">>,
              <<"l","e","s">>, <<"l","'">>, <<"u","n">>, <<"u","n","e">>,
              <<"d","e","s">> }

\* re.sub(r"^(the|a|an|le|la|les|l'|un|une|des)\s+", "", t, flags=re.IGNORECASE)
StripArticle(t) ==
    LET hits == { a \in ARTICLES :
                    /\ Len(t) > Len(a)
                    /\ SubSeq(StrLower(t), 1, Len(a)) = a
                    /\ IsSpace(t[Len(a) + 1]) }
    IN  IF hits = {} THEN t
        ELSE LET a == CHOOSE a \in hits : TRUE
             IN  LStrip(SubSeq(t, Len(a) + 1, Len(t)))

normalize_title(title) ==
    StrUpper(SelectSeq(StripArticle(Strip(title)), IsAlnum))

-----------------------------------------------------------------------------
(* Texts (sequences of characters) *)

T_BRAVO == <<"B","r","a","v","o">>
T_ECHO == <<"E","c","h","o">>
T_HARRY_POTTER == <<"H","a","r","r","y"," ","P","o","t","t","e","r">>
T_ALPHA_SAGA == <<"A","l","p","h","a"," ","S","a","g","a">>
KW_HERO == <<"h","e","r","o">>
KW_HIGH_SCHOOL == <<"h","i","g","h"," ","s","c","h","o","o","l">>
S_HARRY_POTTER == <<"h","a","r","r","y"," ","p","o","t","t","e","r">>
S_WIZARDING_WORLD == <<"w","i","z","a","r","d","i","n","g"," ","w","o","r","l","d">>
S_HOGWARTS == <<"h","o","g","w","a","r","t","s">>
HP_ACTORS == { <<"d","a","n","i","e","l"," ","r","a","d","c","l","i","f","f","e">>, <<"e","m","m","a"," ","w","a","t","s","o","n">>, <<"r","u","p","e","r","t"," ","g","r","i","n","t">> }

-----------------------------------------------------------------------------
(* The catalog: the rows of the movies table (with the genre_ids that      *)
(* discover_movies attaches) and the enriched record get_details builds    *)
(* for each row.  A column that is NULL is a key that is absent.  Budgets  *)
(* are in millions.                                                        *)

GENRE_MAP == [g \in {28, 18} |-> IF g = 28 THEN "Action" ELSE "Drama"]

ROWS == <<
    [id |-> 1, title |-> <<"A","l","p","h","a">>, popularity |-> 90, original_language |-> "en",
     release_date |-> <<2015>>, genre_ids |-> <<28>>],
    [id |-> 2, title |-> <<"T","h","e"," ","B","e","t","a">>, popularity |-> 80, original_language |-> "fr",
     release_date |-> <<1995>>, genre_ids |-> <<18>>],
    [id |-> 3, title |-> T_BRAVO, popularity |-> 70, original_language |-> "fr",
     release_date |-> <<1995>>, genre_ids |-> <<18>>],
    [id |-> 4, title |-> T_ECHO, popularity |-> 60, genre_ids |-> << >>],
    [id |-> 5, title |-> <<"C","h","a","r","l","i","e">>, popularity |-> 50, genre_ids |-> <<28>>] >>

DB == [mid \in 1..5 |->
    CASE mid = 1 -> [genres |-> <<"Action">>, keywords |-> <<KW_HERO>>,
                     cast |-> << >>, crew |-> << >>,
                     production_countries |-> << >>,
                     belongs_to_collection |-> T_ALPHA_SAGA]
      [] mid \in {2, 3} -> [genres |-> <<"Drama">>, keywords |-> << >>,
                     cast |-> << >>, crew |-> << >>,
                     production_countries |-> << >>]
      [] mid = 5 -> [genres |-> <<"Action">>, keywords |-> << >>,
                     cast |-> << >>, crew |-> << >>,
                     production_countries |-> << >>]
      [] OTHER -> [genres |-> << >>, keywords |-> << >>,
                     cast |-> << >>, crew |-> << >>,
                     production_countries |-> << >>] ]

\* Items used to exercise the predicates beyond the catalog: a film with
\* every attribute filled in, a row whose identifier has no enriched record,
\* and a row without identifier.
PROBE_DB == [mid \in {7} |->
    [genres |-> <<"Action">>, keywords |-> <<KW_HIGH_SCHOOL>>,
     cast |-> << <<"A","n","n"," ","L","e","e">> >>,
     crew |-> << [name |-> <<"C","y"," ","D","o","e">>, job |-> "Producer"],
                 [name |-> <<"B","o"," ","K","i","m">>, job |-> "Director"] >>,
     production_countries |-> <<"US">>,
     belongs_to_collection |-> T_HARRY_POTTER, budget |-> 100]]

PROBES == <<
    [id |-> 7, title |-> T_HARRY_POTTER, popularity |-> 40, original_language |-> "en",
     release_date |-> <<2001>>, genre_ids |-> <<28>>, budget |-> 100],
    [id |-> 8, popularity |-> 30, genre_ids |-> << >>],
    [id |-> 9, title |-> T_ECHO, popularity |-> 20, genre_ids |-> << >>, budget |-> 0],
    [title |-> T_BRAVO, popularity |-> 10, genre_ids |-> << >>] >>

\* A catalog of seven films with 22 keywords each, no keyword shared: the
\* keywords of the i-th film are the i-th letter followed by a letter.
WIDE_ROWS ==
    [i \in 1..7 |-> [id |-> 40 + i, popularity |-> 100 - i, genre_ids |-> << >>,
                     original_language |-> IF i <= 4 THEN "en" ELSE "fr"]]

WIDE_DB == [mid \in 41..47 |->
    [genres |-> << >>, keywords |-> [j \in 1..22 |-> <<LOWER[mid - 40], LOWER[j]>>],
     cast |-> << >>, crew |-> << >>, production_countries |-> << >>]]

\* A catalog of four films with actors: two in English, one in French, one
\* without language and date.
N_ZENDAYA == <<"Z","e","n","d","a","y","a">>
N_BRAD_PITT == <<"B","r","a","d"," ","P","i","t","t">>
N_OMAR_SY == <<"O","m","a","r"," ","S","y">>
N_BO_KIM == <<"B","o"," ","K","i","m">>

CAST_ROWS == <<
    [id |-> 51, popularity |-> 90, original_language |-> "en", release_date |-> <<2021>>,
     genre_ids |-> << >>],
    [id |-> 52, popularity |-> 80, original_language |-> "fr", release_date |-> <<1995>>,
     genre_ids |-> << >>],
    [id |-> 53, popularity |-> 70, original_language |-> "en", release_date |-> <<1994>>,
     genre_ids |-> << >>],
    [id |-> 54, popularity |-> 60, genre_ids |-> << >>] >>

CAST_DB == [mid \in 51..54 |->
    [genres |-> << >>, keywords |-> << >>,
     cast |-> CASE mid = 51 -> <<N_ZENDAYA, N_BRAD_PITT>>
                [] mid = 52 -> <<N_OMAR_SY>>
                [] mid = 53 -> <<N_BRAD_PITT>>
                [] OTHER -> <<N_OMAR_SY, N_ZENDAYA>>,
     crew |-> IF mid = 51 THEN << [name |-> N_BO_KIM, job |-> "Director"] >> ELSE << >>,
     production_countries |-> << >>]]

\* get_details: the enriched record of an identifier, {} for an identifier
\* the movies table does not hold.
get_details(mid) ==
    IF mid \in DOMAIN DB THEN DB[mid]
    ELSE IF mid \in DOMAIN PROBE_DB THEN PROBE_DB[mid]
    ELSE IF mid \in DOMAIN WIDE_DB THEN WIDE_DB[mid]
    ELSE IF mid \in DOMAIN CAST_DB THEN CAST_DB[mid]
    ELSE EmptyDict

\* The identifiers get_details is called with on its own: the five films of
\* DB and two identifiers that the movies table does not hold.
CacheIds == DOMAIN DB \cup {98, 99}

\* How often the movies table is read for one identifier in the exploration.
MaxLookups == 2

\* movie_id(m): << >> is None.
movie_id(m) == IF Has(m, "id") THEN <<m.id>> ELSE << >>

\* safe_year(release_date): << >> is None; an empty date text is << >> too.
safe_year(m) == Get(m, "release_date", << >>)

-----------------------------------------------------------------------------
(* Predicates *)

Bool3(b) == IF b THEN TrueV ELSE FalseV

pred_exact_year(year, m) ==
    LET y == safe_year(m)
    IN  IF y = << >> THEN NoneV ELSE Bool3(y[1] = year)

pred_decade(start_year, m) ==
    LET y == safe_year(m)
    IN  IF y = << >> THEN NoneV
        ELSE Bool3(start_year <= y[1] /\ y[1] < start_year + 10)

pred_is_harry_potter(m) ==
    LET title == StrLower(Get(m, "title", << >>))
        mid == movie_id(m)
        d == get_details(mid[1])
        kws == Get(d, "keywords", << >>)
        top_actors == LET c == Get(d, "cast", << >>)
                      IN  [i \in 1..(IF Len(c) < 5 THEN Len(c) ELSE 5) |-> StrLower(c[i])]
        matches == Cardinality({ a \in HP_ACTORS :
                        \E i \in 1..Len(top_actors) : Contains(top_actors[i], a) })
    IN  IF Contains(title, S_HARRY_POTTER) THEN TrueV
        ELSE IF mid = << >> THEN NoneV
        ELSE IF /\ Has(d, "belongs_to_collection")
                /\ \/ Contains(StrLower(d.belongs_to_collection), S_HARRY_POTTER)
                   \/ Contains(StrLower(d.belongs_to_collection), S_WIZARDING_WORLD)
             THEN TrueV
        ELSE IF \E i \in 1..Len(kws) :
                    \/ Contains(StrLower(kws[i]), S_HARRY_POTTER)
                    \/ Contains(StrLower(kws[i]), S_HOGWARTS)
             THEN TrueV
        ELSE IF matches >= 2 THEN TrueV
        ELSE FalseV

pred_title_starts_with(letter, m) ==
    IF Get(m, "title", << >>) = << >> THEN NoneV
    ELSE LET nt == normalize_title(m.title)
         IN  IF nt = << >> THEN NoneV
             ELSE Bool3(nt[1] = UpperChar(letter))

\* The joker lambdas: p(A)(m) or p(B)(m) or ... with Python's `or`, which
\* yields the first truthy operand and otherwise the last one.
RECURSIVE PyOr(_)
PyOr(rs) ==
    IF Len(rs) = 1 THEN rs[1]
    ELSE IF rs[1] = TrueV THEN TrueV ELSE PyOr(Tail(rs))

joker_title(letters, m) ==
    PyOr([i \in 1..Len(letters) |-> pred_title_starts_with(letters[i], m)])

pred_has_genre(name, m) ==
    LET gids == Get(m, "genre_ids", << >>)
        names == SelectSeq([i \in 1..Len(gids) |-> Get(GENRE_MAP, gids[i], NoneV)],
                           LAMBDA n : n # NoneV)
        mid == movie_id(m)
        dnames == Get(get_details(mid[1]), "genres", << >>)
    IN  IF names # << >> THEN Bool3(name \in Range(names))
        ELSE IF mid = << >> THEN NoneV
        ELSE IF dnames = << >> THEN NoneV
        ELSE Bool3(name \in Range(dnames))

pred_is_american(m) ==
    LET mid == movie_id(m)
        countries == Get(get_details(mid[1]), "production_countries", << >>)
    IN  IF mid = << >> THEN NoneV
        ELSE Bool3("US" \in Range(countries))

pred_language(lang_code, m) ==
    IF ~Has(m, "original_language") THEN NoneV
    ELSE Bool3(m.original_language = lang_code)

\* The budget of the row, else the budget of the enriched record; << >> is None.
budget_of(m) ==
    LET mid == movie_id(m)
    IN  IF Has(m, "budget") THEN <<m.budget>>
        ELSE IF mid # << >> /\ Has(get_details(mid[1]), "budget")
             THEN <<get_details(mid[1]).budget>>
        ELSE << >>

pred_budget_ge(th, m) ==
    LET b == budget_of(m)
    IN  IF b = << >> \/ b = <<0>> THEN NoneV ELSE Bool3(b[1] >= th)

pred_budget_lt(th, m) ==
    LET b == budget_of(m)
    IN  IF b = << >> \/ b = <<0>> THEN NoneV ELSE Bool3(b[1] < th)

pred_is_saga(m) ==
    LET mid == movie_id(m)
    IN  IF mid = << >> THEN NoneV
        ELSE Bool3(Has(get_details(mid[1]), "belongs_to_collection"))

pred_not_saga(m) ==
    LET r == pred_is_saga(m)
    IN  IF r = NoneV THEN NoneV ELSE Bool3(r # TrueV)

\* " ".join(names)
RECURSIVE JoinSp(_)
JoinSp(names) ==
    IF names = << >> THEN << >>
    ELSE IF Len(names) = 1 THEN names[1]
    ELSE names[1] \o <<" ">> \o JoinSp(Tail(names))

pred_keyword(keyword, m) ==
    LET mid == movie_id(m)
        kws == Get(get_details(mid[1]), "keywords", << >>)
        names == [i \in 1..Len(kws) |-> StrLower(kws[i])]
    IN  IF mid = << >> THEN NoneV
        ELSE Bool3(Contains(JoinSp(names), StrLower(keyword)))

pred_has_director(director_name, m) ==
    LET mid == movie_id(m)
        crew == Get(get_details(mid[1]), "crew", << >>)
        directors == { StrLower(crew[i].name) :
                          i \in { j \in 1..Len(crew) : crew[j].job = "Director" } }
    IN  IF mid = << >> THEN NoneV
        ELSE IF crew = << >> THEN NoneV
        ELSE Bool3(StrLower(director_name) \in directors)

pred_actor_in_cast(actor_name, m) ==
    LET mid == movie_id(m)
        cast == Get(get_details(mid[1]), "cast", << >>)
    IN  IF mid = << >> THEN NoneV
        ELSE IF cast = << >> THEN NoneV
        ELSE Bool3(StrLower(actor_name) \in { StrLower(cast[i]) : i \in 1..Len(cast) })

-----------------------------------------------------------------------------
(* Question keys and the static registry *)

K(p, r) == [prefix |-> p, rest |-> r, text |-> << >>, num |-> 0]

KNum(p, n) == [prefix |-> p, rest |-> "", text |-> << >>, num |-> n]

\* A Question: its key, the text its predicate was built with, requires, excludes.
Question(key, arg, requires, excludes) ==
    [key |-> key, arg |-> arg, requires |-> requires, excludes |-> excludes]

\* q.predicate(m): the closure each Question is built with.
predicate(q, m) ==
    LET k == q.key
    IN  CASE k.prefix = "genre_" -> pred_has_genre("Action", m)
          [] k.prefix = "is_american" -> pred_is_american(m)
          [] k.prefix = "language_" -> pred_language(k.rest, m)
          [] k.prefix = "big_budget" -> pred_budget_ge(50, m)
          [] k.prefix = "small_budget" -> pred_budget_lt(10, m)
          [] k.prefix = "is_saga" -> pred_is_saga(m)
          [] k.prefix = "is_standalone" -> pred_not_saga(m)
          [] k.prefix = "joker_title_" /\ k.rest = "a_d" ->
                joker_title(<<"A", "B", "C", "D">>, m)
          [] k.prefix = "joker_title_" /\ k.rest = "e_h" ->
                joker_title(<<"E", "F", "G", "H">>, m)
          [] k.prefix = "franchise_" -> pred_is_harry_potter(m)
          [] k.prefix = "dyn_keyword_" -> pred_keyword(q.arg, m)
          [] k.prefix = "dyn_actor_" -> pred_actor_in_cast(q.arg, m)
          [] k.prefix = "dyn_director_" -> pred_has_director(q.arg, m)
          [] k.prefix = "year_" -> pred_exact_year(k.num, m)
          [] k.prefix = "validate_actor_" -> pred_actor_in_cast(q.arg, m)
          [] k.prefix = "validate_director_" -> pred_has_director(q.arg, m)
          [] k.prefix = "validate_keyword_" -> pred_keyword(q.arg, m)
          [] k.prefix = "validate_year_" -> pred_exact_year(k.num, m)
          [] k.prefix = "validate_title_" -> pred_title_starts_with(k.rest, m)
          [] k.prefix = "decade_" -> pred_decade(k.num, m)
          [] OTHER -> NoneV

\* The part of default_questions the model keeps, in the order of the source.
default_questions == <<
    Question(K("genre_", "action"), << >>, {}, {}),
    Question(K("is_american", ""), << >>, {}, {}),
    Question(K("language_", "en"), << >>, {}, {}),
    Question(K("language_", "fr"), << >>, {}, {}),
    Question(K("big_budget", ""), << >>, {}, {}),
    Question(K("small_budget", ""), << >>, {}, {K("big_budget", "")}),
    Question(K("is_saga", ""), << >>, {}, {}),
    Question(K("is_standalone", ""), << >>, {}, {}),
    Question(K("joker_title_", "a_d"), << >>, {}, {}),
    Question(K("joker_title_", "e_h"), << >>, {}, {}),
    Question(K("franchise_", "harry_potter"), << >>, {}, {}) >>

all_languages == { K("language_", l) : l \in {"en", "fr", "ja", "es", "de", "it", "ko", "zh"} }

-----------------------------------------------------------------------------
(* Dynamic questions *)

\* The distinct elements of s, in the order of their first occurrence.
Distinct(s) ==
    LET firsts == { i \in 1..Len(s) : \A j \in 1..(i - 1) : s[j] # s[i] }
    IN  [r \in 1..Cardinality(firsts) |->
            s[CHOOSE i \in firsts : Cardinality({ j \in firsts : j < i }) = r - 1]]

Rank(keys) ==
    << >> \o [i \in 1..Len(keys) |->
        Cardinality({ j \in 1..Len(keys) : keys[j] > keys[i] \/ (keys[j] = keys[i] /\ j < i) })]

\* sort(key=..., reverse=True) of s, keys[i] being the key of s[i]: stable,
\* descending in the key.
SortDesc(s, keys) == ByRank(<< >> \o s, Rank(<< >> \o keys))

\* Counter(s).most_common(n): by falling count, ties in the order of first insertion.
most_common(s, n) ==
    LET d == << >> \o Distinct(s)
    IN  Take(SortDesc(d, [k \in 1..Len(d) |-> Cardinality({ i \in 1..Len(s) : s[i] = d[k] })]), n)

RECURSIVE Flatten(_)
Flatten(ss) == IF ss = << >> THEN << >> ELSE ss[1] \o Flatten(Tail(ss))

\* kw.replace(' ', '_')
ReplaceSpaces(t) == [i \in 1..Len(t) |-> IF t[i] = " " THEN "_" ELSE t[i]]

\* The questions made of the names in common that are not asked yet.
KeywordQuestions(common, asked) ==
    SelectSeq([i \in 1..Len(common) |->
                  Question([prefix |-> "dyn_keyword_", rest |-> "", text |-> ReplaceSpaces(common[i]),
                            num |-> 0], common[i], {}, {})],
              LAMBDA q : q.key \notin asked)

\* The keyword names of an item, as the counter sees them.
KeywordNames(m) ==
    IF movie_id(m) = << >> THEN << >>
    ELSE SelectSeq([i \in 1..Len(Get(get_details(m.id), "keywords", << >>)) |->
                       StrLower(Strip(Get(get_details(m.id), "keywords", << >>)[i]))],
                   LAMBDA n : n # << >>)

build_dynamic_keyword_questions(candidates, asked, top_k) ==
    IF Len(candidates) > 200 THEN << >>
    ELSE KeywordQuestions(
            most_common(Flatten([i \in 1..Len(candidates) |-> KeywordNames(candidates[i])]),
                        IF Len(candidates) <= 10 THEN 200
                        ELSE IF Len(candidates) <= 30 THEN 150
                        ELSE IF Len(candidates) <= 50 THEN 120
                        ELSE top_k),
            asked)

YearQuestions(common, asked) ==
    SelectSeq([i \in 1..Len(common) |-> Question(KNum("year_", common[i]), << >>, {}, {})],
              LAMBDA q : q.key \notin asked)

build_dynamic_year_questions(candidates, asked) ==
    IF Len(candidates) > 100 \/ Len(candidates) < 2 THEN << >>
    ELSE YearQuestions(
            most_common(Flatten([i \in 1..Len(candidates) |-> safe_year(candidates[i])]),
                        IF Len(candidates) <= 10 THEN 20 ELSE 15),
            asked)

\* detect_dominant_language: << >> is None, <<l>> the language of 70% or more
\* of the candidates.
detect_dominant_language(candidates) ==
    LET langs == SelectSeq([i \in 1..Len(candidates) |->
                               Get(candidates[i], "original_language", "")],
                           LAMBDA l : l # "")
        top == most_common(langs, 1)
    IN  IF candidates = << >> \/ langs = << >> THEN << >>
        ELSE IF 10 * Cardinality({ i \in 1..Len(langs) : langs[i] = top[1] })
                  >= 7 * Len(candidates)
        THEN <<top[1]>>
        ELSE << >>

get_decade_from_year(year) == IF year = << >> THEN << >> ELSE <<(year[1] \div 10) * 10>>

\* detect_dominant_decade: << >> is None.
detect_dominant_decade(candidates) ==
    LET decades == Flatten([i \in 1..Len(candidates) |->
                               get_decade_from_year(safe_year(candidates[i]))])
        top == most_common(decades, 1)
    IN  IF candidates = << >> \/ decades = << >> THEN << >>
        ELSE IF 10 * Cardinality({ i \in 1..Len(decades) : decades[i] = top[1] })
                  >= 7 * Len(candidates)
        THEN <<top[1]>>
        ELSE << >>

\* The lists of famous actors, as far as the casts of CAST_DB go.
ACTORS_BY_DECADE_EN ==
    [d \in {1960, 1970, 1980, 1990, 2000, 2010, 2020} |->
        IF d \in {1990, 2000, 2010} THEN {N_BRAD_PITT}
        ELSE IF d = 2020 THEN {N_ZENDAYA}
        ELSE {}]

ACTORS_FR == {N_OMAR_SY}

\* get_relevant_actors, as the set build_dynamic_questions makes of it.
get_relevant_actors(dominant_language, dominant_decade) ==
    IF dominant_language = << >> THEN ACTORS_BY_DECADE_EN[2020]
    ELSE IF dominant_language = <<"en">>
    THEN IF dominant_decade = << >> \/ dominant_decade[1] < 1960
         THEN ACTORS_BY_DECADE_EN[2020]
         ELSE IF dominant_decade[1] \in DOMAIN ACTORS_BY_DECADE_EN
         THEN ACTORS_BY_DECADE_EN[dominant_decade[1]]
         ELSE ACTORS_BY_DECADE_EN[
                 CHOOSE x \in DOMAIN ACTORS_BY_DECADE_EN :
                     \A y \in DOMAIN ACTORS_BY_DECADE_EN :
                         LET dx == IF x < dominant_decade[1] THEN dominant_decade[1] - x
                                   ELSE x - dominant_decade[1]
                             dy == IF y < dominant_decade[1] THEN dominant_decade[1] - y
                                   ELSE y - dominant_decade[1]
                         IN  dx < dy \/ (dx = dy /\ x <= y)]
    ELSE IF dominant_language = <<"fr">> THEN ACTORS_FR
    ELSE IF dominant_language[1] \in {"es", "de", "ja", "it"} THEN {}
    ELSE ACTORS_BY_DECADE_EN[2020]

\* ACTOR_NATIONALITY, as far as the casts of CAST_DB go: << >> is an unknown actor.
ACTOR_NATIONALITY(actor_lower) ==
    IF actor_lower = StrLower(N_BRAD_PITT) THEN <<"en">>
    ELSE IF actor_lower = StrLower(N_OMAR_SY) THEN <<"fr">>
    ELSE << >>

\* should_include_actor; relevant_actor_set is << >> when it is not given, <<set>> otherwise.
should_include_actor(actor_name, dominant_language, relevant_actor_set) ==
    IF relevant_actor_set # << >> THEN actor_name \in relevant_actor_set[1]
    ELSE IF dominant_language = << >> THEN TRUE
    ELSE IF ACTOR_NATIONALITY(Strip(StrLower(actor_name))) = << >> THEN TRUE
    ELSE ACTOR_NATIONALITY(Strip(StrLower(actor_name))) = dominant_language

\* The key dyn_<kind>_<name with _ for spaces, lowered>, and its question.
PeopleQuestion(kind, name) ==
    Question([prefix |-> kind, rest |-> "", text |-> StrLower(ReplaceSpaces(name)), num |-> 0],
             name, {}, {})

\* The names of the first max_actors actors of an item, as the counter sees them.
ActorNames(m, max_actors) ==
    IF movie_id(m) = << >> THEN << >>
    ELSE SelectSeq([i \in 1..Min(max_actors, Len(Get(get_details(m.id), "cast", << >>))) |->
                       Strip(Get(get_details(m.id), "cast", << >>)[i])],
                   LAMBDA n : n # << >>)

DirectorNames(m) ==
    IF movie_id(m) = << >> THEN << >>
    ELSE SelectSeq([i \in 1..Len(Get(get_details(m.id), "crew", << >>)) |->
                       IF Get(get_details(m.id), "crew", << >>)[i].job = "Director"
                       THEN Strip(Get(get_details(m.id), "crew", << >>)[i].name)
                       ELSE << >>],
                   LAMBDA n : n # << >>)

\* actor_counter.most_common(actual_top_k): the counted actors.
CountedActors(candidates, top_k) ==
    most_common(Flatten([i \in 1..Len(candidates) |->
                            ActorNames(candidates[i],
                                       IF Len(candidates) <= 20 THEN 15 ELSE 10)]),
                IF Len(candidates) <= 10 THEN 150
                ELSE IF Len(candidates) <= 30 THEN 120
                ELSE IF Len(candidates) <= 50 THEN 100
                ELSE top_k)

CountedDirectors(candidates, top_k) ==
    most_common(Flatten([i \in 1..Len(candidates) |-> DirectorNames(candidates[i])]),
                IF Len(candidates) <= 10 THEN 150
                ELSE IF Len(candidates) <= 30 THEN 120
                ELSE IF Len(candidates) <= 50 THEN 100
                ELSE top_k)

\* build_dynamic_questions: the actors that pass should_include_actor, then
\* the directors.
build_dynamic_questions(candidates, asked, top_k) ==
    IF Len(candidates) > 200 THEN << >>
    ELSE SelectSeq([i \in 1..Len(CountedActors(candidates, top_k)) |->
                       PeopleQuestion("dyn_actor_", CountedActors(candidates, top_k)[i])],
                   LAMBDA q :
                       /\ should_include_actor(
                              q.arg, detect_dominant_language(candidates),
                              << get_relevant_actors(detect_dominant_language(candidates),
                                                     detect_dominant_decade(candidates)) >>)
                       /\ q.key \notin asked)
         \o SelectSeq([i \in 1..Len(CountedDirectors(candidates, top_k)) |->
                          PeopleQuestion("dyn_director_", CountedDirectors(candidates, top_k)[i])],
                      LAMBDA q : q.key \notin asked)

\* The key validate_<kind>_<name with _ for spaces, lowered>, and its question.
ValidationQuestion(kind, name) ==
    Question([prefix |-> kind, rest |-> "", text |-> StrLower(ReplaceSpaces(name)), num |-> 0],
             name, {}, {})

\* The questions about the film at the top of the pool: its first five
\* actors, its first named director, its first ten keywords, its year and the
\* first letter of its title, without those already asked, fifteen at most.
build_top_validation_questions(candidates, asked) ==
    IF Len(candidates) < 50 \/ Len(candidates) > 200 THEN << >>
    ELSE IF movie_id(candidates[1]) = << >> THEN << >>
    ELSE LET top == candidates[1]
             details == get_details(top.id)
             cast == Take(Get(details, "cast", << >>), 5)
             actors == SelectSeq([i \in 1..Len(cast) |-> Strip(cast[i])],
                                 LAMBDA n : n # << >>)
             crew == Get(details, "crew", << >>)
             directors == SelectSeq([i \in 1..Len(crew) |->
                                        IF crew[i].job = "Director" THEN Strip(crew[i].name)
                                        ELSE << >>],
                                    LAMBDA n : n # << >>)
             kws == Take(Get(details, "keywords", << >>), 10)
             keywords == SelectSeq([i \in 1..Len(kws) |-> StrLower(Strip(kws[i]))],
                                   LAMBDA n : n # << >>)
             year == safe_year(top)
             title == Strip(Get(top, "title", << >>))
             all == [i \in 1..Len(actors) |-> ValidationQuestion("validate_actor_", actors[i])]
                    \o [i \in 1..Min(1, Len(directors)) |->
                           ValidationQuestion("validate_director_", directors[i])]
                    \o [i \in 1..Len(keywords) |->
                           ValidationQuestion("validate_keyword_", keywords[i])]
                    \o (IF year = << >> \/ year = <<0>> THEN << >>
                        ELSE << Question(KNum("validate_year_", year[1]), << >>, {}, {}) >>)
                    \o (IF title = << >> THEN << >>
                        ELSE << Question(K("validate_title_", UpperChar(title[1])),
                                         << >>, {}, {}) >>)
         IN  Take(SelectSeq(all, LAMBDA q : q.key \notin asked), 15)

\* Every question the builders can make for a pool drawn from the catalog.
KnownQuestions ==
    Range(default_questions)
    \cup Range(build_dynamic_keyword_questions(ROWS, {}, 80))
    \cup Range(build_dynamic_year_questions(ROWS, {}))

\* The predicate of each known question on each row of the catalog, evaluated once.
PredicateTable ==
    [q \in KnownQuestions |-> [i \in 1..Len(ROWS) |-> predicate(q, ROWS[i])]]

\* The position of the item m in the catalog, 0 when it is not a row of it.
RowOf(m) ==
    IF \E i \in 1..Len(ROWS) : ROWS[i] = m THEN CHOOSE i \in 1..Len(ROWS) : ROWS[i] = m ELSE 0

\* The same for the catalog WIDE_ROWS and the questions made for it.
WideQuestions ==
    Range(default_questions) \cup Range(build_dynamic_keyword_questions(WIDE_ROWS, {}, 80))

WideTable ==
    [q \in WideQuestions |-> [i \in 1..Len(WIDE_ROWS) |-> predicate(q, WIDE_ROWS[i])]]

\* q.predicate(m), read from the table when the table has it.
Evaluate(q, m) ==
    IF q \in KnownQuestions /\ RowOf(m) # 0 THEN PredicateTable[q][RowOf(m)]
    ELSE IF Get(m, "id", 0) \in DOMAIN WIDE_DB /\ q \in WideQuestions
    THEN WideTable[q][m.id - 40]
    ELSE predicate(q, m)

-----------------------------------------------------------------------------
(* Scoring.  entropy_split is tabulated in thousandths and a booster is in   *)
(* twentieths; a score is kept multiplied by 1000 * n * 20, n the size of    *)
(* the scored sample, which is the same for every question scored against   *)
(* one pool.                                                                 *)

ENTROPY ==
    << <<0, 0, 0, 0, 0, 0, 0>>,
       <<0, 1000, 918, 811, 722, 650, 592>>,
       <<0, 918, 1000, 971, 918, 863, 811>>,
       <<0, 811, 971, 1000, 985, 954, 918>>,
       <<0, 722, 918, 985, 1000, 991, 971>>,
       <<0, 650, 863, 954, 991, 1000, 994>>,
       <<0, 592, 811, 918, 971, 994, 1000>> >>

\* entropy_split, but a split with an empty side counts as an even one.
entropy_split_flat(yes, no) == IF yes + no = 0 THEN 0 ELSE 1000

entropy_split(yes, no) == ENTROPY[yes + 1][no + 1]

\* (yes, no, unk) of the predicate results rs.
Counts(rs) ==
    [yes |-> Cardinality({ i \in 1..Len(rs) : rs[i] = TrueV }),
     no  |-> Cardinality({ i \in 1..Len(rs) : rs[i] = FalseV }),
     unk |-> Cardinality({ i \in 1..Len(rs) : rs[i] = NoneV })]

\* The results of q's predicate over cands, in order.
Results(cands, q) == << >> \o [i \in 1..Len(cands) |-> Evaluate(q, cands[i])]

split_counts(cands, q) == Counts(Results(cands, q))

\* Question.score from the counts c of a sample of n items: -1 is the invalid score.
ScoreOfCounts(p, c, n) ==
    LET boost == CASE p \in {"validate_actor_", "validate_director_", "validate_keyword_",
                              "validate_year_", "validate_title_"} -> 1000
                   [] p = "language_" -> 2000
                   [] p \in {"director_", "dyn_director_"} -> 30
                   [] p = "franchise_" -> 32
                   [] p = "char_" -> 27
                   [] p \in {"actor_", "dyn_actor_"} ->
                        IF 0 < c.yes /\ c.yes < n THEN 26 ELSE 20
                   [] p \in {"location_", "event_", "object_"} -> 25
                   [] p = "joker_title_" /\ n <= 10 -> 24
                   [] OTHER -> 20
    IN  IF (c.yes = 0 /\ c.unk = 0) \/ (c.no = 0 /\ c.unk = 0) THEN -1
        ELSE (entropy_split(c.yes, c.no) * n - 350 * c.unk) * boost

score(q, cands) ==
    ScoreOfCounts(q.key.prefix, split_counts(Take(cands, 500), q), Min(Len(cands), 500))

get_question_type(q) ==
    LET p == q.key.prefix
    IN  CASE p \in {"validate_actor_", "validate_director_", "validate_keyword_",
                     "validate_year_", "validate_title_"} -> "validation"
          [] p = "language_" -> "language"
          [] p \in {"actor_", "dyn_actor_"} -> "actor"
          [] p \in {"director_", "dyn_director_"} -> "director"
          [] p = "genre_" -> "genre"
          [] p \in {"franchise_", "char_"} -> "franchise"
          [] p \in {"year_", "decade_", "after_", "before_"} -> "date"
          [] p = "dyn_keyword_" -> "keyword"
          [] p = "runtime_" -> "runtime"
          [] p = "joker_title_" -> "title"
          [] p \in {"big_budget", "small_budget", "box_office", "is_indie"} -> "finance"
          [] p \in {"popular", "very_popular"} -> "popularity"
          [] p \in {"is_saga", "is_standalone", "is_adaptation", "based_on_", "superhero"} -> "meta"
          [] p \in {"is_american", "is_french", "is_european", "is_asian"} -> "origin"
          [] p \in {"is_animation", "is_live_action", "is_short", "is_feature"} -> "format"
          [] p = "theme_" -> "theme"
          [] OTHER -> "other"

\* recent[-window:]
LastN(s, window) ==
    IF Len(s) <= window THEN s ELSE SubSeq(s, Len(s) - window + 1, Len(s))

count_recent_type(st, q_type, window) ==
    Cardinality({ i \in 1..Len(LastN(st.recent_question_types, window)) :
                    LastN(st.recent_question_types, window)[i] = q_type })

should_diversify(st, q, max_consecutive) ==
    LET q_type == get_question_type(q)
        last_5 == LastN(st.recent_question_types, 5)
    IN  IF q_type \in {"language", "validation"} THEN FALSE
        ELSE IF count_recent_type(st, q_type, max_consecutive) >= max_consecutive THEN TRUE
        ELSE /\ Len(st.recent_question_types) >= 5
             /\ Cardinality(Range(last_5)) < 3
             /\ count_recent_type(st, q_type, 5) >= 2

-----------------------------------------------------------------------------
(* Engine state.  Scores are kept multiplied by 20, so that every increment *)
(* of the source (5.0, 3.0, 1.5, 0.5, 0.2, -0.75, -1.0, -2.0) is an integer. *)

init_state(movies) ==
    [candidates |-> movies,
     asked |-> {},
     scores |-> [mid \in { movies[i].id : i \in { j \in 1..Len(movies) : Has(movies[j], "id") } } |-> 0],
     strikes |-> EmptyDict,
     question_count |-> 0,
     guess_cooldown |-> 0,
     top_streak_mid |-> << >>,
     top_streak_len |-> 0,
     consecutive_guesses |-> 0,
     recent_question_types |-> << >>]

\* snapshot_state, but the recent question types are not copied.
snapshot_state_partial(st) == [st EXCEPT !.recent_question_types = << >>]

snapshot_state(st) ==
    [candidates |-> st.candidates,
     asked |-> st.asked,
     scores |-> st.scores,
     strikes |-> st.strikes,
     question_count |-> st.question_count,
     guess_cooldown |-> st.guess_cooldown,
     top_streak_mid |-> st.top_streak_mid,
     top_streak_len |-> st.top_streak_len,
     consecutive_guesses |-> st.consecutive_guesses,
     recent_question_types |-> st.recent_question_types]

score_of(st, m) ==
    IF movie_id(m) = << >> THEN -2000000000 ELSE Get(st.scores, m.id, 0)

\* key_func of sort_candidates: (-score, -popularity), compared as a tuple.
key_func(st, m) ==
    IF movie_id(m) = << >> THEN <<-2000000000, 0>>
    ELSE <<0 - Get(st.scores, m.id, 0), 0 - Get(m, "popularity", 0)>>

KeyLeq(a, b) == a[1] < b[1] \/ (a[1] = b[1] /\ a[2] <= b[2])

\* list.sort(key=...): stable, ascending in the key.
RankAsc(keys) ==
    << >> \o [i \in 1..Len(keys) |->
        Cardinality({ j \in 1..Len(keys) : \/ ~KeyLeq(keys[i], keys[j])
                                            \/ (keys[j] = keys[i] /\ j < i) })]

StableSort(st, ms) ==
    ByRank(<< >> \o ms, RankAsc(<< >> \o [k \in 1..Len(ms) |-> key_func(st, ms[k])]))

\* sort_candidates, but the list is left as it is.
sort_candidates_asis(st) == st

sort_candidates(st) == [st EXCEPT !.candidates = StableSort(st, st.candidates)]

hard_elimination_prefixes ==
    {"franchise_", "language_", "director_", "joker_title_", "char_", "decade_", "year_"}

hard_elimination_keys ==
    {"is_animation", "is_live_action", "is_short", "is_feature", "runtime_lt_90",
     "runtime_ge_150", "before_2000", "after_2010", "is_saga", "is_standalone",
     "big_budget", "small_budget", "is_american", "is_french", "is_european", "is_asian"}

is_hard_elimination(q) ==
    q.key.prefix \in hard_elimination_keys \/ q.key.prefix \in hard_elimination_prefixes

\* keeps, but an answer n keeps the items whose predicate is true.
keeps_true_on_n(ans, r) ==
    CASE ans = "y" -> r \in {TrueV, NoneV}
      [] OTHER -> TRUE

\* The items update_state_with_answer keeps in to_keep for an answer y or n.
keeps(ans, r) ==
    CASE ans = "y" -> r \in {TrueV, NoneV}
      [] ans = "n" -> r \in {FalseV, NoneV}
      [] OTHER -> TRUE

\* The score increment of an item whose predicate gave r; << >> is no change.
delta(ans, r, hard) ==
    CASE ans = "y" /\ r = TrueV -> <<100>>
      [] ans = "y" /\ r = NoneV -> <<-20>>
      [] ans = "n" /\ r = FalseV -> <<60>>
      [] ans = "n" /\ r = NoneV -> <<10>>
      [] ans = "py" /\ r = TrueV -> IF hard THEN <<30>> ELSE <<10>>
      [] ans = "py" /\ r = FalseV -> IF hard THEN <<-40>> ELSE <<-15>>
      [] ans = "pn" /\ r = FalseV -> IF hard THEN <<30>> ELSE <<10>>
      [] ans = "pn" /\ r = TrueV -> IF hard THEN <<-40>> ELSE <<-15>>
      [] ans = "?" /\ r = NoneV -> <<4>>
      [] OTHER -> << >>

IdsOf(ms) == { ms[i].id : i \in { j \in 1..Len(ms) : Has(ms[j], "id") } }

\* The elements of s at the positions in idx, in the order of s.
Pick(s, idx) ==
    [r \in 1..Cardinality(idx) |->
        s[CHOOSE i \in idx : Cardinality({ j \in idx : j < i }) = r - 1]]

\* The scores after the answer: kept holds the positions that stay in the pool,
\* rs the predicate results by position.
ScoresAfter(st, ans, hard, rs, kept) ==
    LET c == st.candidates
        touched == { i \in kept : Has(c[i], "id") /\ delta(ans, rs[i], hard) # << >> }
        tids == { c[i].id : i \in touched }
        dom == IF ans \in {"y", "n"} THEN tids ELSE DOMAIN st.scores \cup tids
    IN  [mid \in dom |->
            IF mid \in tids
            THEN Get(st.scores, mid, 0)
                 + delta(ans, rs[CHOOSE i \in touched : c[i].id = mid], hard)[1]
            ELSE st.scores[mid]]

\* The elimination by strikes that ends update_state_with_answer, then the sort.
StrikeOut(st, hard, max_strikes) ==
    LET to_remove == IF hard THEN {}
                     ELSE { mid \in IdsOf(st.candidates) :
                                Get(st.strikes, mid, 0) >= max_strikes }
    IN  sort_candidates(
            [st EXCEPT !.candidates = SelectSeq(st.candidates,
                                        LAMBDA m : movie_id(m) = << >> \/ m.id \notin to_remove),
                       !.scores = [mid \in DOMAIN st.scores \ to_remove |-> st.scores[mid]],
                       !.strikes = [mid \in DOMAIN st.strikes \ to_remove |-> st.strikes[mid]]])

\* update_state_with_answer, given the predicate results rs by position.
ApplyAnswer(st, ans, hard, max_strikes, rs, kept) ==
    StrikeOut([st EXCEPT !.candidates = Pick(st.candidates, kept),
                         !.scores = ScoresAfter(st, ans, hard, rs, kept),
                         !.strikes = IF ans \in {"y", "n"}
                                     THEN [mid \in DOMAIN st.strikes
                                                    \cap { st.candidates[i].id : i \in kept } |->
                                              st.strikes[mid]]
                                     ELSE st.strikes],
              hard, max_strikes)

\* Kept, but an item whose predicate is unknown leaves the pool too.
Kept_known(st, ans, rs) ==
    { i \in 1..Len(st.candidates) :
        \/ ans \notin {"y", "n"}
        \/ /\ movie_id(st.candidates[i]) # << >>
           /\ keeps(ans, rs[i])
           /\ rs[i] # NoneV }

\* Kept, but py and pn drop the items they contradict as y and n do.
Kept_probably(st, ans, rs) ==
    { i \in 1..Len(st.candidates) :
        \/ ans = "?"
        \/ /\ movie_id(st.candidates[i]) # << >>
           /\ keeps(IF ans = "py" THEN "y" ELSE IF ans = "pn" THEN "n" ELSE ans, rs[i]) }

\* The positions of the items that an answer leaves in the pool.
Kept(st, ans, rs) ==
    { i \in 1..Len(st.candidates) :
        \/ ans \notin {"y", "n"}
        \/ movie_id(st.candidates[i]) # << >> /\ keeps(ans, rs[i]) }

WithResults(st, ans, hard, max_strikes, rs) ==
    ApplyAnswer(st, ans, hard, max_strikes, rs, Kept(st, ans, rs))

update_state_with_answer(st, q, ans, max_strikes) ==
    WithResults(st, ans, is_hard_elimination(q), max_strikes, Results(st.candidates, q))

should_enter_guess_mode(st) ==
    \/ Len(st.candidates) = 1
    \/ /\ Len(st.candidates) >= 2
       /\ LET s1 == score_of(st, st.candidates[1])
              s2 == score_of(st, st.candidates[2])
          IN  \/ s2 > 0 /\ s1 >= 2 * s2
              \/ s2 <= 0 /\ s1 >= 200
    \/ st.top_streak_len >= 10

eliminate_movie(st, mid) ==
    [st EXCEPT !.candidates = SelectSeq(st.candidates, LAMBDA m : movie_id(m) # <<mid>>),
               !.scores = [k \in DOMAIN st.scores \ {mid} |-> st.scores[k]],
               !.strikes = [k \in DOMAIN st.strikes \ {mid} |-> st.strikes[k]]]

-----------------------------------------------------------------------------
(* Question selection *)

contradictions ==
    [k \in { K("big_budget", ""), K("small_budget", ""), K("runtime_", "lt_90"),
             K("runtime_", "ge_150"), K("is_animation", ""), K("is_live_action", ""),
             K("is_saga", ""), K("is_standalone", ""), K("after_", "1980"),
             K("after_", "2000"), K("after_", "2020") } |->
        CASE k = K("big_budget", "") -> K("small_budget", "")
          [] k = K("small_budget", "") -> K("big_budget", "")
          [] k = K("runtime_", "lt_90") -> K("runtime_", "ge_150")
          [] k = K("runtime_", "ge_150") -> K("runtime_", "lt_90")
          [] k = K("is_animation", "") -> K("is_live_action", "")
          [] k = K("is_live_action", "") -> K("is_animation", "")
          [] k = K("is_saga", "") -> K("is_standalone", "")
          [] k = K("is_standalone", "") -> K("is_saga", "")
          [] k = K("after_", "1980") -> K("before_", "1970")
          [] k = K("after_", "2000") -> K("before_", "1990")
          [] OTHER -> K("before_", "2010")]

\* The questions choose_best_question scores: the first 150 that pass its filters.
\* valid_questions, but the asked keys are not filtered out.
valid_questions_any(questions, asked) == questions

\* valid_questions, but only the asked keys are filtered out.
valid_questions_unasked(questions, asked) ==
    Take(SelectSeq(questions, LAMBDA q : q.key \notin asked), 150)

valid_questions(questions, asked) ==
    LET jokers_used == Cardinality({ k \in asked : k.prefix = "joker_title_" })
        ok(q) == /\ q.key \notin asked
                 /\ ~(q.requires # {} /\ ~(q.requires \subseteq asked))
                 /\ ~(q.excludes # {} /\ q.excludes \cap asked # {})
                 /\ ~(q.key.prefix = "joker_title_" /\ jokers_used >= 1)
                 /\ ~(q.key \in DOMAIN contradictions /\ contradictions[q.key] \in asked)
    IN  Take(SelectSeq(questions, ok), 150)

\* The scores of the questions qs against the pool, by position.
\* The questions of qs whose score s[i] is above floor, sorted by falling score;
\* the score of a diversified question counts a hundredth (st is << >> when the
\* caller does not diversify).
Ranked(qs, s, floor, st) ==
    SortDesc(Pick(qs, { i \in 1..Len(qs) : s[i] > floor }),
             Pick([i \in 1..Len(qs) |->
                      IF st # << >> /\ should_diversify(st, qs[i], 2) THEN s[i]
                      ELSE 100 * s[i]],
                  { i \in 1..Len(qs) : s[i] > floor }))

RankedBy(qs, candidates, floor, st) ==
    Ranked(qs, << >> \o [i \in 1..Len(qs) |-> score(qs[i], candidates)], floor, st)

\* scored_questions, but no question is left out, asked or scored below zero,
\* and the list is sorted by rising score.
scored_questions_worst(candidates, questions, asked, st) ==
    LET r == RankedBy(questions, candidates, -2000000000, st)
    IN  [i \in 1..Len(r) |-> r[Len(r) + 1 - i]]

\* The list `scored` of choose_best_question after its sort.
scored_questions(candidates, questions, asked, st) ==
    RankedBy(valid_questions(questions, asked), candidates, 0, st)

\* ChoiceOf, but the last question of the sorted list is returned.
ChoiceOf_last(scored, is_first_question) ==
    IF scored = << >> THEN {} ELSE { scored[Len(scored)] }

\* What choose_best_question may return from its sorted list; the empty set is None.
ChoiceOf(scored, is_first_question) ==
    IF scored = << >> THEN {}
    ELSE IF is_first_question /\ Len(scored) >= 5 THEN { scored[i] : i \in 1..5 }
    ELSE { scored[1] }

choose_best_question(candidates, questions, asked, is_first_question, st) ==
    ChoiceOf(scored_questions(candidates, questions, asked, st), is_first_question)

\* get_discriminating_questions, but the first unasked questions of the list
\* are taken as they come, unscored.
get_discriminating_unscored(candidates, asked, count) ==
    Take(SelectSeq(default_questions \o build_dynamic_keyword_questions(candidates, asked, 50),
                   LAMBDA q : q.key \notin asked),
         count)

\* s > 0.1 for a score kept multiplied by 1000 * n * 20.
get_discriminating_questions(candidates, asked, count) ==
    Take(RankedBy(SelectSeq(default_questions
                            \o build_dynamic_keyword_questions(candidates, asked, 50),
                            LAMBDA q : q.key \notin asked),
                  candidates, 2000 * Min(Len(candidates), 500), << >>),
         count)

\* merged_questions of main: the validation questions first.  The people
\* builder yields nothing for the records of the catalog, which have no cast
\* and no crew.
merged_questions(st) ==
    build_top_validation_questions(st.candidates, st.asked)
    \o build_dynamic_keyword_questions(st.candidates, st.asked, 80)
    \o build_dynamic_year_questions(st.candidates, st.asked)
    \o default_questions

-----------------------------------------------------------------------------
(* The command-line session: main *)

\* Bounds of the exploration.
MaxQuestions == 4

\* The values of --guess-cooldown that are explored; main does not clamp it.
GuessCooldowns == {0, 2}

\* discover_movies: the rows of the catalog.
MOVIES == ROWS

NoQ == Question(K("", ""), << >>, {}, {})

Ctl(p, q, tqs) == [pc |-> p, q |-> q, targeted |-> tqs]

\* What main does with the result qs of choose_best_question.
Offer(st, qs) ==
    IF qs = {}
    THEN IF Len(st.candidates) = 1 THEN { Ctl("found", NoQ, << >>) }
         ELSE { Ctl("manual", NoQ, << >>) }
    ELSE { Ctl("ask", q, << >>) : q \in qs }

\* main from the guess check to the next input: a guess, a question, the manual
\* prompt, or the end.
AfterBurst(st) ==
    IF should_enter_guess_mode(st) /\ st.guess_cooldown = 0
    THEN { Ctl("guess", NoQ, << >>) }
    ELSE Offer(st, choose_best_question(st.candidates, merged_questions(st), st.asked,
                                        st.question_count = 0, st))

\* The targeted burst starts with the first of the questions tqs, if there is one.
Burst(st, tqs) ==
    IF tqs = << >> THEN AfterBurst(st)
    ELSE { Ctl("burst", tqs[1], Tail(tqs)) }

\* main from the top of its loop to the next input.
LoopTop(st, c) ==
    IF st.candidates = << >> THEN { Ctl("empty", NoQ, << >>) }
    ELSE IF Len(st.candidates) = 1 THEN { Ctl("found", NoQ, << >>) }
    ELSE IF st.consecutive_guesses >= c.max_consecutive_guesses
         THEN Burst(st, get_discriminating_questions(st.candidates, st.asked, 3))
    ELSE AfterBurst(st)

\* The state main starts its loop with.
StartState ==
    LET st == sort_candidates(init_state(MOVIES))
    IN  [st EXCEPT !.top_streak_mid =
                      IF st.candidates = << >> THEN << >> ELSE movie_id(st.candidates[1])]

\* Recorded, but the question is not counted.
Recorded_uncounted(st, q, ans) ==
    [st EXCEPT !.asked = st.asked \cup {q.key},
               !.consecutive_guesses = 0]

\* What the main path records for an answer before it updates the scores.
Recorded(st, q, ans) ==
    LET types == Append(st.recent_question_types, get_question_type(q))
    IN  [st EXCEPT !.asked = IF ans = "y" /\ q.key.prefix = "language_"
                             THEN st.asked \cup {q.key} \cup all_languages
                             ELSE st.asked \cup {q.key},
                   !.recent_question_types = LastN(types, 10),
                   !.question_count = st.question_count + 1,
                   !.consecutive_guesses = 0,
                   !.guess_cooldown = IF st.guess_cooldown > 0 THEN st.guess_cooldown - 1 ELSE 0]

\* What the targeted burst records for an answer.
RecordedTargeted(st, tq) ==
    [st EXCEPT !.asked = st.asked \cup {tq.key},
               !.question_count = st.question_count + 1,
               !.consecutive_guesses = 0,
               !.guess_cooldown = IF st.guess_cooldown > 0 THEN st.guess_cooldown - 1 ELSE 0]

\* The streak bookkeeping after an answer of the main path.
Streak(st) ==
    LET mid == movie_id(st.candidates[1])
    IN  IF mid = << >> THEN st
        ELSE IF st.top_streak_mid = mid
        THEN [st EXCEPT !.top_streak_len = st.top_streak_len + 1]
        ELSE [st EXCEPT !.top_streak_mid = mid, !.top_streak_len = 1]

\* Cooled, but the cooldown is left at zero.
Cooled_not(st1, c) ==
    [st1 EXCEPT !.guess_cooldown = 0,
                !.top_streak_len = 0,
                !.consecutive_guesses = st1.consecutive_guesses + 1]

\* The bookkeeping of a rejected guess, st1 being the pool without the guess.
Cooled(st1, c) ==
    [st1 EXCEPT !.guess_cooldown = c.guess_cooldown,
                !.top_streak_mid = IF st1.candidates = << >> THEN << >>
                                   ELSE movie_id(st1.candidates[1]),
                !.top_streak_len = 0,
                !.consecutive_guesses = st1.consecutive_guesses + 1]

\* WithoutTop, but the whole catalog is back in the pool.
WithoutTop_restart(st) == sort_candidates([st EXCEPT !.candidates = MOVIES])

\* WithoutTop, but the top item stays.
WithoutTop_kept(st) == sort_candidates(st)

\* The pool without its top item, sorted.
WithoutTop(st) ==
    sort_candidates(IF movie_id(st.candidates[1]) = << >> THEN st
                    ELSE eliminate_movie(st, st.candidates[1].id))

\* A rejected guess: the top item leaves, the cooldown starts.
Rejected(st, c) == Cooled(WithoutTop(st), c)

Answers == {"y", "n", "?", "py", "pn"}

HttpIdle == UNCHANGED << sessions, current_qkey, guess_mid, DETAILS_CACHE, lookups >>

PredIdle == UNCHANGED << p_in, p_out, DETAILS_CACHE, lookups >>

Go(c) ==
    /\ pc' = c.pc
    /\ cur_q' = c.q
    /\ targeted' = c.targeted

NoteAnswer(q, ans) ==
    /\ answered' = Append(answered, [q |-> q, ans |-> ans])
    /\ since_reject' = IF since_reject = -1 \/ since_reject >= cfg.guess_cooldown
                       THEN since_reject ELSE since_reject + 1

\* The session moves to the state st and to one of the control points cs.
Move(st, cs) ==
    /\ state' = st
    /\ \E c \in cs : Go(c)

\* `continue`: back to the top of main's loop with the state st.
Continue(st) == Move(st, LoopTop(st, cfg))

\* After the answer of the main path: the streak guess, or the top of the loop.
AfterAnswer(st3) ==
    IF /\ movie_id(st3.candidates[1]) # << >>
       /\ st3.top_streak_len >= 9
       /\ st3.guess_cooldown = 0
    THEN Move(st3, { Ctl("streak_guess", NoQ, << >>) })
    ELSE Continue(st3)

\* `top = state.candidates[0]` raises IndexError on an empty pool.
Updated(st2) ==
    IF st2.candidates = << >> THEN Move(st2, { Ctl("crashed", NoQ, << >>) })
    ELSE AfterAnswer(Streak(st2))

\* read_answer gives y, n, ?, py or pn to the question of the main path.
Answer(ans) ==
    /\ pc = "ask"
    /\ state.question_count < MaxQuestions
    /\ Updated(update_state_with_answer(Recorded(state, cur_q, ans), cur_q, ans,
                                        cfg.max_strikes))
    /\ history' = Append(history, snapshot_state(state))
    /\ out' = "answer"
    /\ NoteAnswer(cur_q, ans)
    /\ UNCHANGED cfg
    /\ HttpIdle /\ PredIdle

\* read_answer gives u and there is a snapshot to return to.
Undo ==
    /\ pc = "ask"
    /\ history # << >>
    /\ Continue(Last(history))
    /\ history' = Front(history)
    /\ out' = "undo"
    /\ answered' = Front(answered)
    /\ UNCHANGED << cfg, since_reject >>
    /\ HttpIdle /\ PredIdle

\* UndoEmpty, but the refused undo restarts the guess cooldown.
UndoEmpty_cooldown ==
    /\ pc = "ask"
    /\ history = << >>
    /\ Continue([state EXCEPT !.guess_cooldown = cfg.guess_cooldown])
    /\ out' = "no_history"
    /\ UNCHANGED << history, cfg, answered, since_reject >>
    /\ HttpIdle /\ PredIdle

\* read_answer gives u and the history is empty.
UndoEmpty ==
    /\ pc = "ask"
    /\ history = << >>
    /\ Continue(state)
    /\ out' = "no_history"
    /\ UNCHANGED << history, cfg, answered, since_reject >>
    /\ HttpIdle /\ PredIdle

BurstDone(st) == Move(st, AfterBurst(st))

\* read_answer gives an answer to a targeted question; the burst then ends,
\* because consecutive_guesses is back to zero.
BurstAnswer(ans) ==
    /\ pc = "burst"
    /\ state.question_count < MaxQuestions
    /\ BurstDone(update_state_with_answer(RecordedTargeted(state, cur_q), cur_q, ans,
                                          cfg.max_strikes))
    /\ history' = Append(history, snapshot_state(state))
    /\ out' = "answer"
    /\ NoteAnswer(cur_q, ans)
    /\ UNCHANGED cfg
    /\ HttpIdle /\ PredIdle

BurstNext(st1) ==
    IF targeted # << >> /\ st1.consecutive_guesses >= cfg.max_consecutive_guesses
    THEN Move(st1, { Ctl("burst", targeted[1], Tail(targeted)) })
    ELSE Move(st1, AfterBurst(st1))

\* read_answer gives u to a targeted question: the burst goes on to its next
\* question, if it has one and the counter is still at its limit.
BurstUndo ==
    /\ pc = "burst"
    /\ BurstNext(IF history = << >> THEN state ELSE Last(history))
    /\ history' = IF history = << >> THEN history ELSE Front(history)
    /\ answered' = IF history = << >> THEN answered ELSE Front(answered)
    /\ out' = IF history = << >> THEN "no_history" ELSE "undo"
    /\ UNCHANGED << cfg, since_reject >>
    /\ HttpIdle /\ PredIdle

\* ask_yes_no gives y to a guess.
GuessAccept ==
    /\ pc \in {"guess", "streak_guess"}
    /\ Go(Ctl("found", NoQ, << >>))
    /\ out' = "accept"
    /\ UNCHANGED << state, history, cfg, answered, since_reject >>
    /\ HttpIdle /\ PredIdle

\* ask_yes_no gives n to a guess.
GuessReject ==
    /\ pc \in {"guess", "streak_guess"}
    /\ Continue(Rejected(state, cfg))
    /\ out' = "reject"
    /\ since_reject' = 0
    /\ UNCHANGED << history, cfg, answered >>
    /\ HttpIdle /\ PredIdle

\* The manual prompt gets a number from 1 to 5 that names a listed film.
ManualPick(choice) ==
    /\ pc = "manual"
    /\ choice - 1 < Len(state.candidates)
    /\ Go(Ctl("found", NoQ, << >>))
    /\ out' = "pick"
    /\ UNCHANGED << state, history, cfg, answered, since_reject >>
    /\ HttpIdle /\ PredIdle

\* The manual prompt gets a number from 1 to 5 beyond the pool: main goes on
\* to q.predicate with q None, and the AttributeError ends the program.
ManualOutOfRange(choice) ==
    /\ pc = "manual"
    /\ ~(choice - 1 < Len(state.candidates))
    /\ Go(Ctl("crashed", NoQ, << >>))
    /\ out' = "crash"
    /\ UNCHANGED << state, history, cfg, answered, since_reject >>
    /\ HttpIdle /\ PredIdle

\* The manual prompt gets e: the top film is eliminated.
ManualEliminate ==
    /\ pc = "manual"
    /\ IF state.candidates = << >>
       THEN Move(state, { Ctl("crashed", NoQ, << >>) })
       ELSE Continue(WithoutTop(state))
    /\ out' = "eliminate"
    /\ UNCHANGED << history, cfg, answered, since_reject >>
    /\ HttpIdle /\ PredIdle

\* The manual prompt gets anything else.
ManualInvalid ==
    /\ pc = "manual"
    /\ Continue(state)
    /\ out' = "invalid"
    /\ UNCHANGED << history, cfg, answered, since_reject >>
    /\ HttpIdle /\ PredIdle

Init ==
    /\ state = StartState
    /\ history = << >>
    /\ cfg \in { [guess_cooldown |-> g, max_consecutive_guesses |-> 2, max_strikes |-> 3] :
                    g \in GuessCooldowns }
    /\ \E c \in LoopTop(StartState, [max_consecutive_guesses |-> 2]) :
            /\ pc = c.pc
            /\ cur_q = c.q
            /\ targeted = c.targeted
    /\ out = "start"
    /\ answered = << >>
    /\ since_reject = -1
    /\ sessions = {}
    /\ current_qkey = NoQ.key
    /\ guess_mid = << >>
    /\ p_in = << >>
    /\ p_out = NoneV
    /\ DETAILS_CACHE = EmptyDict
    /\ lookups = [mid \in CacheIds |-> 0]

Next ==
    \/ \E ans \in Answers : Answer(ans)
    \/ Undo
    \/ UndoEmpty
    \/ \E ans \in Answers : BurstAnswer(ans)
    \/ BurstUndo
    \/ GuessAccept
    \/ GuessReject
    \/ \E choice \in 1..5 : ManualPick(choice)
    \/ \E choice \in 1..5 : ManualOutOfRange(choice)
    \/ ManualEliminate
    \/ ManualInvalid

Spec == Init /\ [][Next]_vars

-----------------------------------------------------------------------------
(* The predicates on their own: every question of the library against every *)
(* row and every probe item.                                                *)

ITEMS == ROWS \o PROBES

PredQuestions ==
    KnownQuestions
    \cup Range(build_dynamic_keyword_questions(PROBES, {}, 80))
    \cup Range(build_dynamic_year_questions(PROBES, {}))

CliIdle == UNCHANGED << history, cur_q, targeted, cfg, answered, since_reject >>

\* q.predicate(m) is called.
PredEval(q, i) ==
    /\ p_in' = [q |-> q, m |-> ITEMS[i]]
    /\ p_out' = predicate(q, ITEMS[i])
    /\ UNCHANGED << state, pc, out >>
    /\ CliIdle /\ HttpIdle

PredInit ==
    /\ state = init_state(<< >>)
    /\ history = << >>
    /\ cfg = [guess_cooldown |-> 2, max_consecutive_guesses |-> 4, max_strikes |-> 3]
    /\ pc = "idle"
    /\ cur_q = NoQ
    /\ targeted = << >>
    /\ out = "start"
    /\ answered = << >>
    /\ since_reject = -1
    /\ sessions = {}
    /\ current_qkey = NoQ.key
    /\ guess_mid = << >>
    /\ p_in = << >>
    /\ p_out = NoneV
    /\ DETAILS_CACHE = EmptyDict
    /\ lookups = [mid \in CacheIds |-> 0]

PredNext == \E q \in PredQuestions : \E i \in 1..Len(ITEMS) : PredEval(q, i)

PredSpec == PredInit /\ [][PredNext]_vars

-----------------------------------------------------------------------------
(* The validation questions on their own: main started on a catalog of 49   *)
(* or 50 films whose most popular film is one of ITEMS, then one turn with  *)
(* one of the questions build_top_validation_questions made for the pool.   *)

\* The rest of such a catalog: rows with an identifier and a popularity only.
FILLERS == [i \in 1..49 |-> [id |-> 100 + i, popularity |-> 1, genre_ids |-> << >>]]

PoolSizes == {49, 50}

\* main up to the point where it has built the validation questions.
ValidationStart(top, n) ==
    /\ state' = sort_candidates(init_state(<<top>> \o Take(FILLERS, n - 1)))
    /\ targeted' = build_top_validation_questions(state'.candidates, {})
    /\ pc' = "validation"
    /\ out' = "start"
    /\ cur_q' = NoQ
    /\ history' = << >>
    /\ answered' = << >>
    /\ UNCHANGED << cfg, since_reject >>
    /\ HttpIdle /\ PredIdle

\* The turn in which the i-th validation question is put and answered.
ValidationAnswer(i, ans) ==
    /\ pc = "validation"
    /\ i <= Len(targeted)
    /\ state' = update_state_with_answer(Recorded(state, targeted[i], ans), targeted[i], ans,
                                         cfg.max_strikes)
    /\ history' = Append(history, snapshot_state(state))
    /\ answered' = Append(answered, [q |-> targeted[i], ans |-> ans])
    /\ cur_q' = targeted[i]
    /\ pc' = "validated"
    /\ out' = "answer"
    /\ UNCHANGED << targeted, cfg, since_reject >>
    /\ HttpIdle /\ PredIdle

ValidationNext ==
    \/ \E i \in 1..Len(ITEMS) : \E n \in PoolSizes : ValidationStart(ITEMS[i], n)
    \/ \E i \in 1..15 : \E ans \in Answers : ValidationAnswer(i, ans)

ValidationSpec == Init /\ [][ValidationNext]_vars

-----------------------------------------------------------------------------
(* Long sessions: main on the catalog MOVIES, or started again on a catalog *)
(* of nine films, two of them without date or language, and answered with ? *)
(* or py only, which leaves the pool to the guesses while the streak of the *)
(* top film grows.                                                          *)

YEAR_ROWS ==
    << [id |-> 31, popularity |-> 90, genre_ids |-> << >>],
       [id |-> 32, popularity |-> 80, genre_ids |-> << >>] >>
    \o [i \in 1..7 |-> [id |-> 32 + i, popularity |-> 10, genre_ids |-> << >>,
                         original_language |-> IF i % 2 = 1 THEN "en" ELSE "fr",
                         release_date |-> <<2000 + i>>]]

\* The number of questions of a long session.
MaxStreakQuestions == 9

SoftAnswers == {"?", "py"}

\* main from its start to its first input, on the catalog YEAR_ROWS.
StreakStart ==
    /\ out = "start"
    /\ state = StartState
    /\ LET st == sort_candidates(init_state(YEAR_ROWS))
       IN  Continue([st EXCEPT !.top_streak_mid = movie_id(st.candidates[1])])
    /\ history' = << >>
    /\ out' = "restart"
    /\ UNCHANGED << cfg, answered, since_reject >>
    /\ HttpIdle /\ PredIdle

\* read_answer gives ? or py to the question of the main path.
StreakAnswer(ans) ==
    /\ pc = "ask"
    /\ state.question_count < MaxStreakQuestions
    /\ Updated(update_state_with_answer(Recorded(state, cur_q, ans), cur_q, ans,
                                        cfg.max_strikes))
    /\ history' = Append(history, snapshot_state(state))
    /\ out' = "answer"
    /\ NoteAnswer(cur_q, ans)
    /\ UNCHANGED cfg
    /\ HttpIdle /\ PredIdle

\* read_answer gives ? or py to a targeted question.
StreakBurstAnswer(ans) ==
    /\ pc = "burst"
    /\ state.question_count < MaxStreakQuestions
    /\ BurstDone(update_state_with_answer(RecordedTargeted(state, cur_q), cur_q, ans,
                                          cfg.max_strikes))
    /\ history' = Append(history, snapshot_state(state))
    /\ out' = "answer"
    /\ NoteAnswer(cur_q, ans)
    /\ UNCHANGED cfg
    /\ HttpIdle /\ PredIdle

StreakNext ==
    \/ StreakStart
    \/ \E ans \in SoftAnswers : StreakAnswer(ans)
    \/ \E ans \in SoftAnswers : StreakBurstAnswer(ans)
    \/ GuessAccept
    \/ GuessReject

StreakSpec == Init /\ [][StreakNext]_vars

-----------------------------------------------------------------------------
(* The first turns of a session, on the catalog MOVIES or started again on  *)
(* the catalog WIDE_ROWS, whose keywords make more than 150 questions.      *)

\* The number of questions answered in such a session.
MaxWideQuestions == 1

\* main from its start to its first input, on the catalog WIDE_ROWS.
WideStart ==
    /\ out = "start"
    /\ state = StartState
    /\ LET st == sort_candidates(init_state(WIDE_ROWS))
       IN  Continue([st EXCEPT !.top_streak_mid = movie_id(st.candidates[1])])
    /\ history' = << >>
    /\ out' = "restart"
    /\ UNCHANGED << cfg, answered, since_reject >>
    /\ HttpIdle /\ PredIdle

\* read_answer gives an answer to the question of the main path.
WideAnswer(ans) ==
    /\ pc = "ask"
    /\ state.question_count < MaxWideQuestions
    /\ Updated(update_state_with_answer(Recorded(state, cur_q, ans), cur_q, ans,
                                        cfg.max_strikes))
    /\ history' = Append(history, snapshot_state(state))
    /\ out' = "answer"
    /\ NoteAnswer(cur_q, ans)
    /\ UNCHANGED cfg
    /\ HttpIdle /\ PredIdle

WideNext ==
    \/ WideStart
    \/ \E ans \in Answers : WideAnswer(ans)

WideSpec == Init /\ [][WideNext]_vars

-----------------------------------------------------------------------------
(* The actor and director questions on their own: build_dynamic_questions   *)
(* on every pool drawn from CAST_ROWS, with some of its keys asked already. *)

PeopleKeys ==
    { PeopleQuestion("dyn_actor_", N_ZENDAYA).key, PeopleQuestion("dyn_actor_", N_BRAD_PITT).key,
      PeopleQuestion("dyn_director_", N_BO_KIM).key }

\* build_dynamic_questions(conn, candidates, asked) is called.
PeopleBuild(rows, asked) ==
    /\ rows # {}
    /\ p_in' = [candidates |-> Pick(CAST_ROWS, rows), asked |-> asked]
    /\ p_out' = build_dynamic_questions(Pick(CAST_ROWS, rows), asked, 60)
    /\ UNCHANGED << state, pc, out >>
    /\ CliIdle /\ HttpIdle

PeopleNext ==
    \E rows \in SUBSET (1..Len(CAST_ROWS)) : \E asked \in SUBSET PeopleKeys :
        PeopleBuild(rows, asked)

PeopleSpec == PredInit /\ [][PeopleNext]_vars

-----------------------------------------------------------------------------
(* The cache of get_details: calls of get_details(conn, movie_id) in any     *)
(* order, for identifiers of the catalog and for identifiers it lacks.      *)

\* get_details(conn, movie_id) is called: a cached record is returned as it
\* is; otherwise the movies table is read, and the record is built and cached
\* if the row exists, while {} is returned, and nothing cached, if it does not.
GetDetails(mid) ==
    /\ IF mid \in DOMAIN DETAILS_CACHE
       THEN /\ p_out' = DETAILS_CACHE[mid]
            /\ UNCHANGED << DETAILS_CACHE, lookups >>
       ELSE /\ lookups[mid] < MaxLookups
            /\ lookups' = [lookups EXCEPT ![mid] = @ + 1]
            /\ p_out' = get_details(mid)
            /\ DETAILS_CACHE' =
                  IF get_details(mid) = EmptyDict THEN DETAILS_CACHE
                  ELSE [k \in DOMAIN DETAILS_CACHE \cup {mid} |->
                           IF k = mid THEN get_details(mid) ELSE DETAILS_CACHE[k]]
    /\ p_in' = mid
    /\ UNCHANGED << state, pc, out, sessions, current_qkey, guess_mid >>
    /\ CliIdle

CacheNext == \E mid \in CacheIds : GetDetails(mid)

CacheSpec == PredInit /\ [][CacheNext]_vars

-----------------------------------------------------------------------------
(* Claims about the predicate library *)

\* The pool-level fields and the keys of the enriched record a predicate reads.
PoolFields(q) ==
    CASE q.key.prefix = "genre_" -> {"genre_ids"}
      [] q.key.prefix = "language_" -> {"original_language"}
      [] q.key.prefix \in {"big_budget", "small_budget"} -> {"budget"}
      [] q.key.prefix \in {"joker_title_", "franchise_"} -> {"title"}
      [] q.key.prefix \in {"year_", "decade_"} -> {"release_date"}
      [] OTHER -> {}

DetailFields(q) ==
    CASE q.key.prefix = "genre_" -> {"genres"}
      [] q.key.prefix = "is_american" -> {"production_countries"}
      [] q.key.prefix \in {"big_budget", "small_budget"} -> {"budget"}
      [] q.key.prefix \in {"is_saga", "is_standalone"} -> {"belongs_to_collection"}
      [] q.key.prefix = "franchise_" -> {"belongs_to_collection", "keywords", "cast"}
      [] q.key.prefix = "dyn_keyword_" -> {"keywords"}
      [] OTHER -> {}

\* A field is absent when the dict has no such key or holds an empty list.
Absent(d, f) == ~Has(d, f) \/ d[f] = << >>

DetailsOf(m) == IF movie_id(m) = << >> THEN EmptyDict ELSE get_details(m.id)

\* The attribute q tests is absent from the row and from the enriched record.
AttributeAbsent(q, m) ==
    /\ \A f \in PoolFields(q) : Absent(m, f)
    /\ \A f \in DetailFields(q) : Absent(DetailsOf(m), f)

\* C10: for every predicate and every item, when the attribute the predicate
\* tests is absent from the pool-level fields and from the enriched record,
\* the predicate returns true or unknown, never false.
C10_NeverFalseWhenAbsent ==
    (p_in # << >> /\ AttributeAbsent(p_in.q, p_in.m)) => p_out # FalseV

-----------------------------------------------------------------------------
(* Claims about the CLI session *)

Offered == pc \in {"ask", "burst"}

Guessing == pc \in {"guess", "streak_guess"}

LastQ == Last(answered).q

LastAns == Last(answered).ans

\* C1: after a y to a hard-elimination question no item of the pool has the
\* predicate false, and after an n no item of the pool has it true.
C1_HardElimination ==
    (out = "answer" /\ is_hard_elimination(LastQ)) =>
        \A i \in 1..Len(state.candidates) :
            /\ LastAns = "y" => predicate(LastQ, state.candidates[i]) # FalseV
            /\ LastAns = "n" => predicate(LastQ, state.candidates[i]) # TrueV

C1_Witness ==
    /\ out = "answer"
    /\ is_hard_elimination(LastQ)
    /\ LastAns = "n"
    /\ state.candidates # << >>
    /\ Len(state.candidates) < Len(Last(history).candidates)

\* C2: every turn that is not an undo (an answer y, n, ?, py or pn, a rejected
\* guess, a manual elimination) leaves a pool no larger than it found.
C2_PoolNeverGrows ==
    [][out' # "undo" => Len(state'.candidates) <= Len(state.candidates)]_vars

C2_Witness ==
    /\ out \in {"reject", "eliminate"}
    /\ state.candidates # << >>
    /\ Len(state.candidates) < Len(MOVIES)

\* C3: an answer pushes a snapshot equal to the state before the answer in every
\* field, and an undo makes the newest snapshot the state and pops it, so an
\* answer followed by undo gives back the state before the answer.
C3_UndoRestores ==
    [][/\ out' = "answer" => history' = Append(history, state)
       /\ out' = "undo" => state' = Last(history) /\ history' = Front(history)]_vars

C3_Witness ==
    /\ out = "undo"
    /\ pc = "ask"
    /\ state.question_count > 0
    /\ state.recent_question_types # << >>

\* C4, as stated: a question offered after a turn never has a key that was
\* asked before that turn.
C4_NeverOfferedAgain ==
    [][pc' \in {"ask", "burst"} => cur_q'.key \notin state.asked]_vars

\* C4, amended: the question offered never has a key of the asked set of the
\* session, and only an undo takes keys out of that set.
C4_NotOfferedWhileAsked ==
    [][/\ pc' \in {"ask", "burst"} => cur_q'.key \notin state'.asked
       /\ out' # "undo" => state.asked \subseteq state'.asked]_vars

C4_Witness ==
    /\ Offered
    /\ out = "answer"
    /\ Cardinality(state.asked) >= 2
    /\ LastQ.key \in state.asked

YesToLanguage(e) == e.ans = "y" /\ e.q.key.prefix = "language_"

C7_NoGuessBeforeNQuestions ==
    (Guessing /\ since_reject # -1) =>
        (cfg.guess_cooldown > 0 /\ since_reject >= cfg.guess_cooldown)

\* C7, amended: a guess is offered only at cooldown zero; a rejection sets the
\* cooldown to the configured N, which may be zero, and is not followed by a
\* guess when N is not zero; an answer lowers a cooldown above zero by one; an
\* undo restores the cooldown of the snapshot; nothing else changes it.
C7_Cooldown ==
    [][/\ pc' \in {"guess", "streak_guess"} => state'.guess_cooldown = 0
       /\ out' = "reject" =>
             /\ state'.guess_cooldown = cfg.guess_cooldown
             /\ cfg.guess_cooldown > 0 => pc' \notin {"guess", "streak_guess"}
       /\ out' = "answer" =>
             state'.guess_cooldown = IF state.guess_cooldown > 0
                                     THEN state.guess_cooldown - 1 ELSE 0
       /\ out' = "undo" => state'.guess_cooldown = Last(history).guess_cooldown
       /\ out' \notin {"reject", "answer", "undo"} =>
             state'.guess_cooldown = state.guess_cooldown]_vars

C7_Witness ==
    /\ out = "reject"
    /\ state.guess_cooldown = 2
    /\ pc = "ask"

\* A number typed at the manual prompt.
ManualChoice == \E choice \in 1..5 : ManualPick(choice) \/ ManualOutOfRange(choice)

\* The session whose manual prompt does not stay up for ever: input() returns,
\* and the user who is shown the list ends up typing a number.
LiveSpec == Init /\ [][Next]_vars /\ WF_vars(ManualChoice)

\* Two items of the pool agree on every question predicate.
Agree(a, b) == \A q \in KnownQuestions : Evaluate(q, a) = Evaluate(q, b)

TiedPair ==
    \E i, j \in 1..Len(state.candidates) :
        i < j /\ Agree(state.candidates[i], state.candidates[j])

\* C8, as stated: when no question is available for a pool that holds two items
\* agreeing on every predicate, a guess is offered sooner or later.
C8_StreakGuessEnds == (pc = "manual" /\ TiedPair) ~> Guessing

\* C8, amended: with no question available the session is at the manual prompt,
\* where the streak does not grow; an input there names a film or aborts, which
\* ends the session, or eliminates the top film, which takes one item from the
\* pool, or is invalid, which changes nothing.
C8_ManualPromptEnds ==
    [][pc = "manual" =>
          \/ pc' \in {"found", "crashed"} /\ state' = state
          \/ /\ out' = "eliminate"
             /\ Len(state'.candidates) = Len(state.candidates) - 1
             /\ state'.top_streak_len = state.top_streak_len
          \/ out' = "invalid" /\ pc' = "manual" /\ state' = state]_vars

C8_Witness ==
    /\ pc = "manual"
    /\ TiedPair
    /\ out = "eliminate"

\* C9: at the start of a turn outside the forced burst, with the cooldown at
\* zero and one of the three guess conditions true, the engine offers the top
\* item as a guess and waits for the confirmation.
C9_GuessOffered ==
    (/\ pc \in {"ask", "manual", "found", "guess", "streak_guess"}
     /\ out \notin {"accept", "pick"}
     /\ state.guess_cooldown = 0
     /\ should_enter_guess_mode(state)) => Guessing

C13_EmptyUndoIsNoOp ==
    [][/\ history = << >> => out' # "undo"
       /\ out' = "no_history" =>
             /\ history = << >>
             /\ state' = state
             /\ history' = history]_vars

\* The refusal has been reported, and a question is offered again.
C13_Witness ==
    /\ out = "no_history"
    /\ pc = "ask"
    /\ history = << >>

\* C15: at the guess-or-manual-pick step every input ends the session with a
\* pick, eliminates the top candidate or prompts again; none raises an exception.
C15_ManualInputNeverRaises ==
    [][pc = "manual" =>
          /\ out' \in {"pick", "eliminate", "invalid"}
          /\ pc' # "crashed"]_vars

\* The items of the pool whose predicate contradicts the answer a to q.
Contradicting(q, a) ==
    { m \in Range(state.candidates) :
        \/ a = "y" /\ predicate(q, m) = FalseV
        \/ a = "n" /\ predicate(q, m) = TrueV }

\* C17: a y or an n to a soft-class question removes no item directly: an item
\* that contradicts the answer stays in the pool, with a lower score, unless
\* the contradiction brings its strike count to max_strikes.
C17_SoftAnswerKeepsItems ==
    [][(/\ out' = "answer"
        /\ Last(answered').ans \in {"y", "n"}
        /\ ~is_hard_elimination(Last(answered').q)) =>
          \A m \in Contradicting(Last(answered').q, Last(answered').ans) :
              Get(state.strikes, m.id, 0) + 1 < cfg.max_strikes =>
                  /\ m \in Range(state'.candidates)
                  /\ score_of(state', m) < score_of(state, m)]_vars

\* C18: a y or an n to a soft-class question adds exactly one strike to each
\* item it contradicts, and the item leaves the pool in the turn in which its
\* strike count reaches max_strikes, not before.
C18_OneStrikePerContradiction ==
    [][(/\ out' = "answer"
        /\ Last(answered').ans \in {"y", "n"}
        /\ ~is_hard_elimination(Last(answered').q)) =>
          \A m \in Contradicting(Last(answered').q, Last(answered').ans) :
              IF Get(state.strikes, m.id, 0) + 1 >= cfg.max_strikes
              THEN m \notin Range(state'.candidates)
              ELSE Get(state'.strikes, m.id, 0) = Get(state.strikes, m.id, 0) + 1]_vars

\* C19: an n to a question that build_top_validation_questions made for the
\* film at the top of the pool removes that film from the pool in that turn.
C19_NoRemovesTop ==
    (pc = "validated" /\ LastAns = "n") =>
        Last(history).candidates[1] \notin Range(state.candidates)

\* C20: the session ends on a found film only through a guess that was
\* offered and that the user accepts (the film the user picks at the manual
\* prompt aside): the engine never declares a film found by itself.
C20_FoundOnlyByAcceptedGuess ==
    [][(pc' = "found" /\ out' # "pick") => (Guessing /\ out' = "accept")]_vars

\* C21: every turn that changes the session state (an answer, a rejected
\* guess, a manual elimination) first pushes a snapshot of the state on the
\* undo stack, so that an undo takes back that turn alone.
C21_SnapshotBeforeEveryChange ==
    [][(state' # state /\ out' # "undo") =>
          history' = Append(history, snapshot_state(state))]_vars

\* The questions the burst draws from: the registry and the keyword
\* questions of the pool, without the asked ones.
Available(st) ==
    { q \in Range(default_questions)
            \cup Range(build_dynamic_keyword_questions(st.candidates, st.asked, 50)) :
        q.key \notin st.asked }

Useful(st) ==
    { q \in Available(st) :
        score(q, st.candidates) > 2000 * Min(Len(st.candidates), 500) }

C24_CounterAtMostOne ==
    cfg.guess_cooldown >= 1 =>
        /\ state.consecutive_guesses <= 1
        /\ \A i \in 1..Len(history) : history[i].consecutive_guesses <= 1
        /\ cfg.max_consecutive_guesses >= 2
        /\ pc # "burst"

\* An undo has restored a state in which one guess had been rejected.
C24_Witness ==
    /\ cfg.guess_cooldown >= 1
    /\ out = "undo"
    /\ state.consecutive_guesses = 1
    /\ state.guess_cooldown >= 1

\* C25, as stated: a guess is offered only when a single candidate remains, or
\* the score of the first candidate is at least twice the score of the second,
\* or the same film has been first for 10 consecutive questions.
C25_GuessOnlyInThreeCases ==
    Guessing =>
        \/ Len(state.candidates) = 1
        \/ /\ Len(state.candidates) >= 2
           /\ score_of(state, state.candidates[1]) >= 2 * score_of(state, state.candidates[2])
        \/ state.top_streak_len >= 10

\* The questions choose_best_question can return in the current state, as the
\* session's first question or as a later one.
Returnable ==
    UNION { choose_best_question(state.candidates, merged_questions(state), state.asked,
                                 first, state) : first \in BOOLEAN }

\* C26: every question choose_best_question returns has, among the first 500
\* items of the pool, at least one item its predicate is true of and at least
\* one item its predicate is false of; the question main is asking is such a
\* question.
C26_ReturnedQuestionSplits ==
    /\ \A q \in Returnable :
          /\ split_counts(Take(state.candidates, 500), q).yes >= 1
          /\ split_counts(Take(state.candidates, 500), q).no >= 1
    /\ pc = "ask" => cur_q \in Returnable

\* A question is being asked while an unasked question that is decided in one
\* direction but for unknowns was passed over.
C26_Witness ==
    /\ pc = "ask"
    /\ out = "answer"
    /\ \E q \in Range(valid_questions(merged_questions(state), state.asked)) :
          /\ split_counts(Take(state.candidates, 500), q).yes = 0
          /\ split_counts(Take(state.candidates, 500), q).no >= 1
          /\ split_counts(Take(state.candidates, 500), q).unk >= 1

JokersAsked(st) == { k \in st.asked : k.prefix = "joker_title_" }

\* C28, as stated: in every reachable state the asked set holds at most one
\* key with the prefix joker_title_, whichever path selected the question.
C28_AtMostOneJoker == Cardinality(JokersAsked(state)) <= 1

\* The four pairs of the contradiction table that the claim names.
NamedPairs ==
    { <<K("big_budget", ""), K("small_budget", "")>>,
      <<K("runtime_", "lt_90"), K("runtime_", "ge_150")>>,
      <<K("is_animation", ""), K("is_live_action", "")>>,
      <<K("is_saga", ""), K("is_standalone", "")>> }

PartnerAsked(q, asked) ==
    \E p \in NamedPairs : \/ q.key = p[1] /\ p[2] \in asked
                          \/ q.key = p[2] /\ p[1] \in asked

\* C29: choose_best_question returns no question whose requires-set is not
\* within the asked keys, whose excludes-set meets the asked keys, or whose
\* partner in the contradiction table has been asked; the question main is
\* asking is such a question.
C29_ReturnedQuestionAllowed ==
    /\ \A q \in Returnable :
          /\ q.requires \subseteq state.asked
          /\ q.excludes \cap state.asked = {}
          /\ ~PartnerAsked(q, state.asked)
    /\ pc = "ask" =>
          /\ cur_q.requires \subseteq state.asked
          /\ cur_q.excludes \cap state.asked = {}
          /\ ~PartnerAsked(cur_q, state.asked)

\* After an answer choose_best_question returns nothing: the one unasked
\* question that splits the pool is held back because its partner was asked.
C29_Witness ==
    /\ pc = "manual"
    /\ out = "answer"
    /\ Returnable = {}
    /\ \E q \in Range(default_questions) :
          /\ q.key \notin state.asked
          /\ PartnerAsked(q, state.asked)
          /\ score(q, state.candidates) > 0

\* The score choose_best_question sorts by: a hundredth for a diversified
\* question (as Ranked, in hundredths of the unit of score).
Adjusted(q, st) ==
    IF should_diversify(st, q, 2) THEN score(q, st.candidates)
    ELSE 100 * score(q, st.candidates)

\* The questions of the turn that pass the filters of choose_best_question
\* and have a positive score.
PositiveEligible(st) ==
    { q \in Range(merged_questions(st)) :
        valid_questions(<<q>>, st.asked) # << >> /\ score(q, st.candidates) > 0 }

\* Those of them that are among the first 150 that pass the filters.
PositiveScored(st) ==
    { q \in Range(valid_questions(merged_questions(st), st.asked)) :
        score(q, st.candidates) > 0 }

EligibleStatic(st) ==
    { q \in Range(default_questions) : valid_questions(<<q>>, st.asked) # << >> }

\* C31, as stated: for a pool that is not very large (the pools here hold at
\* most nine films) choose_best_question scores every eligible question, so
\* every eligible static question is among the questions it scores, however
\* many synthesized questions precede it.
C31_NoStaticQuestionSkipped ==
    pc = "ask" =>
        EligibleStatic(state) \subseteq
            Range(valid_questions(merged_questions(state), state.asked))

\* C32, as stated: for a pool in which no language reaches 70%,
\* build_dynamic_questions makes an actor question of every counted actor
\* whose key is not asked yet.
C32_MixedPoolKeepsEveryActor ==
    (p_in # << >> /\ detect_dominant_language(p_in.candidates) = << >>) =>
        \A name \in Range(CountedActors(p_in.candidates, 60)) :
            PeopleQuestion("dyn_actor_", name).key \notin p_in.asked =>
                PeopleQuestion("dyn_actor_", name) \in Range(p_out)

\* The pool of st is ordered by falling score and, among equal scores, by
\* falling popularity.
Ordered(st) ==
    \A i, j \in 1..Len(st.candidates) :
        i < j => \/ score_of(st, st.candidates[i]) > score_of(st, st.candidates[j])
                 \/ /\ score_of(st, st.candidates[i]) = score_of(st, st.candidates[j])
                    /\ Get(st.candidates[i], "popularity", 0) >= Get(st.candidates[j], "popularity", 0)

\* C33: after every turn (session start, answered question, rejected guess,
\* manual elimination, undo) the candidate pool is ordered by score descending
\* and, among equal scores, by popularity descending.
C33_PoolOrdered == Ordered(state)

\* An answer has been recorded and the scores, not the popularities, have put
\* one item in front of a more popular one.
C33_Witness ==
    /\ history # << >>
    /\ \E i, j \in 1..Len(state.candidates) :
          /\ i < j
          /\ score_of(state, state.candidates[i]) > score_of(state, state.candidates[j])
          /\ Get(state.candidates[i], "popularity", 0) < Get(state.candidates[j], "popularity", 0)

\* C34, as stated: after every answered question, on the main path and in the
\* targeted burst alike, the top-streak counter is 1 if the rank-1 item differs
\* from the item recorded in top_streak_mid before the answer, and the
\* previous length plus one otherwise.
C34_StreakFollowsEveryAnswer ==
    [][(state'.question_count = state.question_count + 1 /\ state'.candidates # << >>) =>
          state'.top_streak_len =
              IF movie_id(state'.candidates[1]) # state.top_streak_mid THEN 1
              ELSE state.top_streak_len + 1]_vars

\* The ids of the items of the pool of st whose score differs in st2.
Rescored(st, st2) ==
    { mid \in DOMAIN st.scores \cup DOMAIN st2.scores :
        Get(st.scores, mid, << >>) # Get(st2.scores, mid, << >>) }

\* C35: a py, pn or ? answer never changes pool membership and never changes
\* the strike table: only scores of items in the pool change, and for ? only
\* the scores of items whose predicate is unknown.
C35_SoftAnswerOnlyRescores ==
    [][(out' = "answer" /\ Last(answered').ans \in {"py", "pn", "?"}) =>
          /\ Range(state'.candidates) = Range(state.candidates)
          /\ state'.strikes = state.strikes
          /\ Rescored(state, state') \subseteq IdsOf(state.candidates)
          /\ Last(answered').ans = "?" =>
                \A m \in Range(state.candidates) :
                    m.id \in Rescored(state, state') =>
                        Evaluate(Last(answered').q, m) = NoneV]_vars

\* A ? answer has just raised the score of an item whose predicate is
\* unknown, and left the score of another item as it was.
C35_Witness ==
    /\ out = "answer"
    /\ history # << >>
    /\ Last(answered).ans = "?"
    /\ Rescored(Last(history), state) # {}
    /\ Rescored(Last(history), state) # IdsOf(state.candidates)

\* C36, as stated: for every identifier, the identifiers absent from the
\* catalog included, once get_details has been called for it a later call
\* does not perform the database lookup again: the movies table is read at
\* most once for an identifier.
C36_LookupAtMostOnce ==
    \A mid \in CacheIds : lookups[mid] <= 1

\* C37: in the CLI session loop the undo stack depth always equals the
\* question counter, len(history) = state.question_count, across answered
\* questions, rejected guesses and undos.
C37_HistoryDepthIsQuestionCount ==
    Len(history) = state.question_count

\* An answer was undone and a guess was rejected, and questions are on record.
C37_Witness ==
    /\ out = "undo"
    /\ history # << >>
    /\ state.consecutive_guesses > 0

-----------------------------------------------------------------------------
(* The HTTP application: start_game, answer, confirm_guess *)

UI_TO_ENGINE ==
    [a \in {"Oui", "Non", "Je ne sais pas", "Probablement", "Probablement pas",
            "y", "n", "?", "py", "pn"} |->
        CASE a \in {"Oui", "y"} -> "y"
          [] a \in {"Non", "n"} -> "n"
          [] a \in {"Je ne sais pas", "?"} -> "?"
          [] a \in {"Probablement", "py"} -> "py"
          [] OTHER -> "pn"]

\* The game_id of a request: none, the game that is followed (new_game_id gave
\* "g1"), a game that does not exist.
GameIds == {"", "g1", "g2"}

\* The answer of a request: two labels of the interface, a code, an unknown text.
UiAnswers == {"Oui", "Non", "pn", "Peut-etre"}

\* The question_key of a request: none, a key of the registry, an unknown key.
QKeys == {NoQ.key, K("genre_", "action"), K("nope", "")}

\* The confirmed of a request: the JSON values true and false, and a text.
Confirmations == {"true", "false", "oui"}

\* The session after the request and the body of the response.
HttpReply(st, qkey, mid, body) ==
    /\ state' = st
    /\ current_qkey' = qkey
    /\ guess_mid' = mid
    /\ out' = body

\* A response that leaves the session as it was.
Refuse(body) == HttpReply(state, current_qkey, guess_mid, body)

\* The guess offer of _next_step: the top film is proposed.
Propose(st) == HttpReply(st, current_qkey, movie_id(st.candidates[1]), "confirmation")

\* _next_step once choose_best_question gave qs.
AskOrPropose(st, qs) ==
    IF qs = {} THEN Propose(st)
    ELSE \E q \in qs : HttpReply(st, q.key, guess_mid, "question")

next_step(st) ==
    IF st.candidates = << >> THEN HttpReply(st, current_qkey, guess_mid, "failure")
    ELSE IF Len(st.candidates) <= 3 THEN Propose(st)
    ELSE AskOrPropose(st, choose_best_question(st.candidates, default_questions,
                                               st.asked, FALSE, st))

\* answer from the lookup of the question on: q is the question of the key.
AnswerQuestion(q, ans) ==
    /\ state.question_count < MaxQuestions
    /\ next_step(sort_candidates(update_state_with_answer(
            [state EXCEPT !.asked = state.asked \cup {q.key},
                          !.question_count = state.question_count + 1],
            q, ans, 3)))

\* AnswerKey, but a key that is not in the registry stands for its first question.
AnswerKey_lenient(key, ans) ==
    IF key = NoQ.key THEN Refuse("error_400")
    ELSE IF \A i \in 1..Len(default_questions) : default_questions[i].key # key
         THEN AnswerQuestion(default_questions[1], ans)
    ELSE AnswerQuestion(default_questions[CHOOSE i \in 1..Len(default_questions) :
                                              default_questions[i].key = key], ans)

AnswerKey(key, ans) ==
    IF key = NoQ.key THEN Refuse("error_400")
    ELSE IF \A i \in 1..Len(default_questions) : default_questions[i].key # key
         THEN Refuse("error_400")
    ELSE AnswerQuestion(default_questions[CHOOSE i \in 1..Len(default_questions) :
                                              default_questions[i].key = key], ans)

\* POST /akinator/answer
answer(gid, ui_answer, q_key) ==
    /\ IF gid = "" THEN Refuse("error_400")
       ELSE IF gid \notin sessions THEN Refuse("error_404")
       ELSE IF ui_answer \notin DOMAIN UI_TO_ENGINE THEN Refuse("error_400")
       ELSE AnswerKey(IF q_key = NoQ.key THEN current_qkey ELSE q_key,
                      UI_TO_ENGINE[ui_answer])
    /\ pc' = "answer"
    /\ UNCHANGED sessions
    /\ CliIdle /\ PredIdle

\* confirm_guess once choose_best_question gave qs.
AskOrFinish(st, qs) ==
    IF qs = {} THEN HttpReply(st, current_qkey, guess_mid, "finished_guess")
    ELSE \E q \in qs : HttpReply(st, q.key, guess_mid, "question")

\* confirm_guess after `state.candidates = state.candidates[1:]`.
AfterRemoval(st) ==
    IF st.candidates = << >> THEN HttpReply(st, current_qkey, guess_mid, "failure")
    ELSE AskOrFinish(st, choose_best_question(st.candidates, default_questions,
                                              st.asked, FALSE, st))

\* POST /akinator/confirm
confirm_guess(gid, confirmed) ==
    /\ IF gid = "" THEN Refuse("error_400")
       ELSE IF gid \notin sessions THEN Refuse("error_404")
       ELSE IF confirmed \notin {"true", "false"} THEN Refuse("error_400")
       ELSE IF confirmed = "true"
            THEN IF state.candidates = << >> THEN Refuse("error_500")
                 ELSE Refuse("success")
       ELSE AfterRemoval([state EXCEPT !.candidates =
                            IF state.candidates = << >> THEN << >>
                            ELSE Tail(state.candidates)])
    /\ pc' = "confirm_guess"
    /\ UNCHANGED sessions
    /\ CliIdle /\ PredIdle

\* start_game once choose_best_question gave qs.
Started(st, qs) ==
    IF qs = {} THEN Refuse("error_400") /\ UNCHANGED sessions
    ELSE /\ \E q \in qs : HttpReply(st, q.key, << >>, "question")
         /\ sessions' = sessions \cup {"g1"}

StartPool == sort_candidates(init_state(MOVIES))

\* POST /akinator/start, for the one game that is followed.
start_game ==
    /\ sessions = {}
    /\ Started(StartPool, choose_best_question(StartPool.candidates, default_questions,
                                               StartPool.asked, TRUE, StartPool))
    /\ pc' = "start_game"
    /\ CliIdle /\ PredIdle

\* The application before any request: game_state is empty.
HttpInit == PredInit

HttpNext ==
    \/ start_game
    \/ \E gid \in GameIds : \E a \in UiAnswers : \E k \in QKeys : answer(gid, a, k)
    \/ \E gid \in GameIds : \E c \in Confirmations : confirm_guess(gid, c)

HttpSpec == HttpInit /\ [][HttpNext]_vars

\* A request to confirm_guess was answered as a rejection is.
RejectedOverHttp == pc = "confirm_guess" /\ out \in {"question", "finished_guess", "failure"}

\* C6: a rejected guess removes the guessed item from the pool with its score
\* and its strikes; the other items stay, with their scores and strikes.
C6_RejectRemovesExactly ==
    [][(RejectedOverHttp' /\ state.candidates # << >>) =>
          LET g == state.candidates[1]
          IN  /\ state'.candidates = Tail(state.candidates)
              /\ g.id \notin DOMAIN state'.scores
              /\ g.id \notin DOMAIN state'.strikes
              /\ \A mid \in IdsOf(state'.candidates) :
                    /\ Get(state'.scores, mid, 0) = Get(state.scores, mid, 0)
                    /\ Get(state'.strikes, mid, 0) = Get(state.strikes, mid, 0)]_vars

\* C12: in every reachable state of a session the keys of the score table and
\* of the strike table are identifiers of items of the pool.
C12_TablesWithinPool ==
    /\ DOMAIN state.scores \subseteq IdsOf(state.candidates)
    /\ DOMAIN state.strikes \subseteq IdsOf(state.candidates)

\* The request names no game that exists, carries an answer that is not a
\* label or a code of UI_TO_ENGINE, or names a key that is not in the registry.
BadAnswerRequest(gid, ui_answer, q_key) ==
    \/ gid \notin sessions
    \/ ui_answer \notin DOMAIN UI_TO_ENGINE
    \/ /\ q_key # NoQ.key
       /\ \A i \in 1..Len(default_questions) : default_questions[i].key # q_key

\* C14: an answer request with an invalid answer, an unknown game or an
\* unknown question key gets a 400 or a 404 and leaves the stored session
\* as it was: a step that is not such a refusal is the step of no such request.
C14_BadRequestRejected ==
    [][\/ pc' # "answer"
       \/ /\ out' \in {"error_400", "error_404"}
          /\ state' = state
          /\ sessions' = sessions
          /\ current_qkey' = current_qkey
       \/ ~ \E gid \in GameIds : \E ui_answer \in UiAnswers : \E q_key \in QKeys :
                /\ BadAnswerRequest(gid, ui_answer, q_key)
                /\ answer(gid, ui_answer, q_key)]_vars

\* A request has been refused in a game that has answered questions.
C14_Witness ==
    /\ pc = "answer"
    /\ out = "error_400"
    /\ sessions # {}
    /\ state.question_count > 0
    /\ state.candidates # << >>

\* C16: once the pool of a game is empty, every later request on the game
\* leaves it empty and reports the failure (or, for a malformed request, a
\* client error): none ends in an internal error.
C16_EmptyPoolIsTerminal ==
    [][(sessions # {} /\ state.candidates = << >>) =>
          /\ state'.candidates = << >>
          /\ out' \in {"failure", "error_400", "error_404"}]_vars

\* C22: when a y to a language question has been recorded, every language
\* key is in the asked set, whichever path recorded the answer: here the
\* answer Oui to the language question that the game has on offer.
C22_YesToLanguageClosesLanguages ==
    [][(/\ current_qkey.prefix = "language_"
        /\ answer("g1", "Oui", NoQ.key)
        /\ out' \notin {"error_400", "error_404"}) =>
          all_languages \subseteq state'.asked]_vars

====
